---------------------------- MODULE Spec2Model ----------------------------
(***************************************************************************)
(* A model of the knots metric engine (knots/src/complexity.rs), of the    *)
(* metric scan that drives it (src/main.rs) and of the test-complexity     *)
(* comparison built on it (knots-test-complexity/src).                     *)
(*                                                                         *)
(* The engine is a set of folds over a tree-sitter syntax tree and one     *)
(* line scanner over the bytes of a function.  The tree is the sequence    *)
(* `ast` of node records; a node is its index.  A node record holds the    *)
(* node's kind, the field name under which it hangs in its parent, the     *)
(* slice of the source it spans (kept where the code reads it) and its     *)
(* children in order.  Anonymous punctuation and keyword tokens are left   *)
(* out of `kids`: their kinds match no arm of any fold and the code reads  *)
(* none of them by field, except the operator token of an expression,      *)
(* which is kept.                                                          *)
(***************************************************************************)
EXTENDS Integers, Sequences, FiniteSets, TLC

VARIABLES
    ast,                    \* the syntax tree of the file under analysis
    src,                    \* the lines of the function's bytes [start_byte, end_byte)
    pc,                     \* "build" | "done" | "edited"
    steps,                  \* constructs written into the file so far
    metrics,                \* what collect_function_metrics returned (a sequence)
    prev,                   \* the metrics of the run before the last edit
    line,                   \* calculate_sloc: the line of the current iteration
    in_multiline_comment,   \* calculate_sloc: its flag of the same name
    sloc,                   \* calculate_sloc: its counter of the same name
    nlines,                 \* calculate_sloc: iterations done
    slocPc,                 \* calculate_sloc: "idle" | "loop" | "returned"
    test_analysis,          \* TestQualityAnalyzer.test_analysis (a FileAnalysis)
    source_analysis,        \* TestQualityAnalyzer.source_analysis
    threshold,              \* TestQualityAnalyzer.threshold, in hundredths
    boundary_threshold,     \* TestQualityAnalyzer.boundary_threshold, in hundredths
    source_code,            \* the subject file as read_to_string gives it: Some(text),
                            \* or Nothing when the read fails
    test_code,              \* the test file, likewise
    boundaries,             \* BoundaryDetector.boundaries
    coverage,               \* what analyze_test_coverage returned
    result,                 \* what TestQualityAnalyzer::analyze returned
    toolPc,                 \* where the comparison tool stands
    arg,                    \* the argument of the function under call
    returned,               \* what it returned
    files,                  \* metric scan: what collect_files returned
    all_metrics,            \* metric scan: main's vector of the same name
    skipped_files,          \* metric scan: main's counter of the same name
    report                  \* metric scan: report.txt, Nothing while it does not exist

astVars == <<ast, src, pc, steps, metrics, prev>>
slocVars == <<line, in_multiline_comment, sloc, nlines, slocPc>>
analyzerVars == <<test_analysis, source_analysis, threshold, boundary_threshold, result>>
detectorVars == <<source_code, test_code, boundaries, coverage>>
callVars == <<arg, returned>>
scanVars == <<files, all_metrics, skipped_files, report>>
toolVars == <<test_analysis, source_analysis, threshold, boundary_threshold, result,
              source_code, test_code, boundaries, coverage, toolPc, arg, returned,
              files, all_metrics, skipped_files, report>>
vars == <<ast, src, pc, steps, metrics, prev,
          line, in_multiline_comment, sloc, nlines, slocPc,
          test_analysis, source_analysis, threshold, boundary_threshold, result,
          source_code, test_code, boundaries, coverage, toolPc, arg, returned,
          files, all_metrics, skipped_files, report>>

\* An Option is a sequence: Nothing for None, Some(x) for Some(x).  A
\* Result is an Option too, Nothing standing for Err.
Nothing == <<>>
Some(x) == <<x>>

\* The comparison tool before it is started; `arg` and `returned` list the
\* calls made so far of the function a specification calls directly.
AnalyzerIdle ==
    /\ test_analysis = Nothing
    /\ source_analysis = Nothing
    /\ threshold = 0
    /\ boundary_threshold = 0
    /\ result = Nothing

DetectorIdle ==
    /\ source_code = Nothing
    /\ test_code = Nothing
    /\ boundaries = <<>>
    /\ coverage = Nothing

ScanIdle ==
    /\ files = <<>>
    /\ all_metrics = <<>>
    /\ skipped_files = 0
    /\ report = Nothing

ToolIdle ==
    /\ AnalyzerIdle
    /\ DetectorIdle
    /\ ScanIdle
    /\ toolPc = "idle"
    /\ arg = <<>>
    /\ returned = <<>>

----------------------------------------------------------------------------
(* Bounds of the model.                                                    *)

\* Longest line, in bytes, enumerated over Alphabet for calculate_sloc.
MaxLineLen == 4
\* Most lines of one function text fed to calculate_sloc.
MaxLines == 3

----------------------------------------------------------------------------
(* Byte strings.  A Rust slice b[from..to] is Slice(b, from, to), with     *)
(* 0-based offsets as in the code; None is the Option that holds nothing.  *)

None == -1

Slice(b, from, to) == SubSeq(b, from + 1, to)

is_ascii_whitespace(c) == c \in {" ", "\t", "\n", "\r", "\f"}

trim_bytes(bytes) ==
    LET n == Len(bytes)
        keep == {i \in 1..n : ~is_ascii_whitespace(SubSeq(bytes, i, i))}
    IN  IF keep = {} THEN ""
        ELSE LET start == CHOOSE i \in keep : \A j \in keep : i <= j
                 end == CHOOSE i \in keep : \A j \in keep : j <= i
             IN  SubSeq(bytes, start, end)

find_bytes(haystack, needle) ==
    IF needle = "" \/ Len(haystack) < Len(needle) THEN None
    ELSE LET hits == {i \in 0..(Len(haystack) - Len(needle)) :
                          Slice(haystack, i, i + Len(needle)) = needle}
         IN  IF hits = {} THEN None
             ELSE CHOOSE i \in hits : \A j \in hits : i <= j

starts_with(text, prefix) ==
    Len(text) >= Len(prefix) /\ SubSeq(text, 1, Len(prefix)) = prefix

contains(text, pattern) ==
    \E i \in 0..(Len(text) - Len(pattern)) : Slice(text, i, i + Len(pattern)) = pattern

----------------------------------------------------------------------------
(* calculate_sloc.  sloc_line is the body of its loop over the lines of    *)
(* the function: from the flag and the counter before a line to the flag   *)
(* and the counter after it.                                               *)

sloc_line(in_comment, count, raw) ==
    LET trimmed == trim_bytes(raw)
        len == Len(trimmed)
    IN  IF trimmed = "" THEN [in_comment |-> in_comment, sloc |-> count]
        ELSE IF in_comment THEN
            LET pos == find_bytes(trimmed, "*/")
            IN  IF pos # None
                THEN [in_comment |-> FALSE,
                      sloc |-> IF trim_bytes(Slice(trimmed, pos + 2, len)) # ""
                               THEN count + 1 ELSE count]
                ELSE [in_comment |-> TRUE, sloc |-> count]
        ELSE
            LET pos == find_bytes(trimmed, "/*")
            IN  IF pos # None
                THEN LET end_pos == find_bytes(Slice(trimmed, pos, len), "*/")
                         before == Slice(trimmed, 0, pos)
                     IN  IF end_pos # None
                         THEN LET after == Slice(trimmed, pos + end_pos + 2, len)
                              IN  [in_comment |-> FALSE,
                                   sloc |-> IF trim_bytes(before) # "" \/ trim_bytes(after) # ""
                                            THEN count + 1 ELSE count]
                         ELSE [in_comment |-> TRUE,
                               sloc |-> IF trim_bytes(before) # "" THEN count + 1 ELSE count]
                ELSE IF starts_with(trimmed, "//")
                     THEN [in_comment |-> FALSE, sloc |-> count]
                     ELSE [in_comment |-> FALSE, sloc |-> count + 1]

RECURSIVE sloc_lines(_, _, _)
sloc_lines(in_comment, count, lines) ==
    IF lines = <<>> THEN count
    ELSE LET after == sloc_line(in_comment, count, Head(lines))
         IN  sloc_lines(after.in_comment, after.sloc, Tail(lines))

\* The function's text is empty when start_byte >= end_byte: the early return.
calculate_sloc(lines) ==
    IF lines = <<>> THEN 0 ELSE sloc_lines(FALSE, 0, lines)

----------------------------------------------------------------------------
(* The lines fed to the scanner: every byte string up to MaxLineLen over   *)
(* the bytes the scanner tells apart, and a few longer lines of C.         *)

Alphabet == {"/", "*", "x", " "}

RECURSIVE Strings(_)
Strings(n) ==
    IF n = 0 THEN {""}
    ELSE LET shorter == Strings(n - 1)
         IN  shorter \cup {s \o c : s \in shorter, c \in Alphabet}

SampleLines ==
    {"void f(){", "int x = 1;", "}", "/* a */ /* b */", "x = 1; /* a */",
     "/* a */ x = 1;", "// a /* b", "*/ x = 1; /*"}

Lines == Strings(MaxLineLen) \cup SampleLines

SlocInit ==
    /\ line = ""
    /\ in_multiline_comment = FALSE
    /\ sloc = 0
    /\ nlines = 0
    /\ slocPc = "idle"

\* calculate_sloc is entered: the counter and the flag are set up.
SlocEnter ==
    /\ slocPc = "idle"
    /\ slocPc' = "loop"
    /\ sloc' = 0
    /\ in_multiline_comment' = FALSE
    /\ UNCHANGED <<line, nlines>>
    /\ UNCHANGED astVars
    /\ UNCHANGED toolVars

\* One iteration of the loop, on the next line of the text.
ScanLine ==
    /\ slocPc = "loop"
    /\ nlines < MaxLines
    /\ \E l \in Lines :
         LET after == sloc_line(in_multiline_comment, sloc, l)
         IN  /\ line' = l
             /\ in_multiline_comment' = after.in_comment
             /\ sloc' = after.sloc
    /\ nlines' = nlines + 1
    /\ UNCHANGED slocPc
    /\ UNCHANGED astVars
    /\ UNCHANGED toolVars

\* The text is exhausted: calculate_sloc returns the counter.
SlocReturn ==
    /\ slocPc = "loop"
    /\ nlines > 0
    /\ slocPc' = "returned"
    /\ UNCHANGED <<line, in_multiline_comment, sloc, nlines>>
    /\ UNCHANGED astVars
    /\ UNCHANGED toolVars

----------------------------------------------------------------------------
(* The syntax tree.                                                        *)

Node(k, f, txt, ks) == [kind |-> k, field |-> f, text |-> txt, kids |-> ks]

\* Node::child_by_field_name: the first child under that field, or NoNode.
NoNode == 0

child_by_field_name(t, n, f) ==
    LET named == SelectSeq(t[n].kids, LAMBDA c : t[c].field = f)
    IN  IF named = <<>> THEN NoNode ELSE named[1]

Parent(t, n) ==
    IF \E p \in 1..Len(t) : \E i \in 1..Len(t[p].kids) : t[p].kids[i] = n
    THEN CHOOSE p \in 1..Len(t) : \E i \in 1..Len(t[p].kids) : t[p].kids[i] = n
    ELSE NoNode

\* Node::prev_sibling.
prev_sibling(t, n) ==
    LET p == Parent(t, n)
    IN  IF p = NoNode THEN NoNode
        ELSE LET i == CHOOSE j \in 1..Len(t[p].kids) : t[p].kids[j] = n
             IN  IF i = 1 THEN NoNode ELSE t[p].kids[i - 1]

\* The text of the operator token of a binary_expression, or "" when the
\* node has no readable operator.
operator_text(t, n) ==
    LET o == child_by_field_name(t, n, "operator")
    IN  IF o = NoNode THEN "" ELSE t[o].text

is_logical(t, n) ==
    t[n].kind = "binary_expression" /\ operator_text(t, n) \in {"&&", "||"}

----------------------------------------------------------------------------
(* calculate_mccabe_complexity.                                            *)

\* The match of visit_node_mccabe: what one node adds.  The first reading
\* counts every case label as a decision of its own; the code's does not.
mccabe_case_counted(t, n) ==
    IF t[n].kind \in {"if_statement", "while_statement", "do_statement",
                      "for_statement", "switch_statement", "case_statement",
                      "conditional_expression", "goto_statement"} THEN 1
    ELSE IF is_logical(t, n) THEN 1
    ELSE 0

mccabe_decision(t, n) ==
    IF t[n].kind \in {"if_statement", "while_statement", "do_statement",
                      "for_statement", "switch_statement",
                      "conditional_expression", "goto_statement"} THEN 1
    ELSE IF is_logical(t, n) THEN 1
    ELSE 0

RECURSIVE visit_node_mccabe(_, _), visit_children_mccabe(_, _)
visit_node_mccabe(t, n) ==
    mccabe_decision(t, n) + visit_children_mccabe(t, t[n].kids)

visit_children_mccabe(t, ns) ==
    IF ns = <<>> THEN 0
    ELSE visit_node_mccabe(t, Head(ns)) + visit_children_mccabe(t, Tail(ns))

calculate_mccabe_complexity(t, n) == 1 + visit_node_mccabe(t, n)

----------------------------------------------------------------------------
(* calculate_cognitive_complexity.  NoOp is parent_binary_op = None.       *)

NoOp == "None"

\* What entering a control structure adds, and the level of its children.
\* control_flat is the reading without a nesting penalty.
control_flat(nesting_level) == 1
control_increment(nesting_level) == 1 + nesting_level

children_level(nesting_level) == nesting_level + 1

\* What an else_clause adds: with an if_statement child, and without.
\* else_if_nested and else_nested are the readings that charge the nesting
\* level of the clause as well.
else_if_nested(nesting_level) == 1 + nesting_level
else_if_increment(nesting_level) == 1

else_nested(nesting_level) == 1 + nesting_level
else_increment(nesting_level) == 1

\* What a logical binary_expression adds under the operator of its parent.
logical_increment(op_text, parent_binary_op) ==
    IF parent_binary_op # op_text THEN 1 ELSE 0

\* The level handed to what an else_clause governs: the level the clause was
\* given.  else_level_deeper is the reading that nests it one deeper.
else_level_deeper(nesting_level) == nesting_level + 1
else_level(nesting_level) == nesting_level

RECURSIVE visit_node_cognitive(_, _, _, _), visit_children_cognitive(_, _, _, _)
visit_node_cognitive(t, n, nesting_level, parent_binary_op) ==
    LET k == t[n].kind
        if_children == SelectSeq(t[n].kids, LAMBDA c : t[c].kind = "if_statement")
    IN  CASE k \in {"if_statement", "while_statement", "do_statement", "for_statement",
                    "switch_statement", "catch_clause"} ->
                 control_increment(nesting_level)
                 + visit_children_cognitive(t, t[n].kids, children_level(nesting_level), NoOp)
          [] k = "else_clause" /\ if_children # <<>> ->
                 else_if_increment(nesting_level)
                 + visit_children_cognitive(t, t[if_children[1]].kids,
                                            else_level(nesting_level), NoOp)
          [] k = "else_clause" /\ if_children = <<>> ->
                 else_increment(nesting_level)
                 + visit_children_cognitive(t, t[n].kids, else_level(nesting_level), NoOp)
          [] k = "goto_statement" ->
                 1 + visit_children_cognitive(t, t[n].kids, nesting_level, parent_binary_op)
          [] is_logical(t, n) ->
                 logical_increment(operator_text(t, n), parent_binary_op)
                 + visit_children_cognitive(t, t[n].kids, nesting_level, operator_text(t, n))
          [] OTHER ->
                 visit_children_cognitive(t, t[n].kids, nesting_level, parent_binary_op)

\* visit_children_cognitive and visit_children_cognitive_with_op are the same loop.
visit_children_cognitive(t, ns, nesting_level, parent_binary_op) ==
    IF ns = <<>> THEN 0
    ELSE visit_node_cognitive(t, Head(ns), nesting_level, parent_binary_op)
         + visit_children_cognitive(t, Tail(ns), nesting_level, parent_binary_op)

calculate_cognitive_complexity(t, n) == visit_node_cognitive(t, n, 0, NoOp)

----------------------------------------------------------------------------
(* calculate_nesting_depth: the deepest level any node reaches.            *)

Max(a, b) == IF a >= b THEN a ELSE b

nests(k) ==
    k \in {"if_statement", "while_statement", "do_statement", "for_statement",
           "switch_statement", "compound_statement"}

RECURSIVE visit_node_nesting(_, _, _), visit_children_nesting(_, _, _)
visit_node_nesting(t, n, current_depth) ==
    LET new_depth == IF nests(t[n].kind) THEN current_depth + 1 ELSE current_depth
        here == IF nests(t[n].kind) THEN new_depth ELSE 0
    IN  Max(here, visit_children_nesting(t, t[n].kids, new_depth))

visit_children_nesting(t, ns, depth) ==
    IF ns = <<>> THEN 0
    ELSE Max(visit_node_nesting(t, Head(ns), depth),
             visit_children_nesting(t, Tail(ns), depth))

calculate_nesting_depth(t, n) == visit_node_nesting(t, n, 0)

----------------------------------------------------------------------------
(* calculate_abc_complexity and calculate_return_count.                    *)

\* The match of visit_node_abc: which node kinds count as an assignment.
\* is_assignment_or_initializer is the reading that counts initialisers too.
is_assignment_or_initializer(k) ==
    k \in {"assignment_expression", "update_expression", "init_declarator"}
is_assignment(k) == k \in {"assignment_expression", "update_expression"}

\* is_condition_statement is the reading that leaves the ternary operator out.
is_condition_statement(t, n) ==
    \/ t[n].kind \in {"if_statement", "while_statement", "do_statement",
                      "for_statement", "switch_statement"}
    \/ is_logical(t, n)
is_condition(t, n) ==
    \/ t[n].kind \in {"if_statement", "while_statement", "do_statement",
                      "for_statement", "switch_statement", "conditional_expression"}
    \/ is_logical(t, n)

RECURSIVE visit_node_abc(_, _), visit_children_abc(_, _)
visit_node_abc(t, n) ==
    LET below == visit_children_abc(t, t[n].kids)
    IN  [assignments |-> below.assignments + (IF is_assignment(t[n].kind) THEN 1 ELSE 0),
         branches |-> below.branches + (IF t[n].kind = "call_expression" THEN 1 ELSE 0),
         conditions |-> below.conditions + (IF is_condition(t, n) THEN 1 ELSE 0)]

visit_children_abc(t, ns) ==
    IF ns = <<>> THEN [assignments |-> 0, branches |-> 0, conditions |-> 0]
    ELSE LET first == visit_node_abc(t, Head(ns))
             rest == visit_children_abc(t, Tail(ns))
         IN  [assignments |-> first.assignments + rest.assignments,
              branches |-> first.branches + rest.branches,
              conditions |-> first.conditions + rest.conditions]

calculate_abc_complexity(t, n) == visit_node_abc(t, n)

RECURSIVE visit_node_returns(_, _), visit_children_returns(_, _)
visit_node_returns(t, n) ==
    (IF t[n].kind = "return_statement" THEN 1 ELSE 0) + visit_children_returns(t, t[n].kids)

visit_children_returns(t, ns) ==
    IF ns = <<>> THEN 0
    ELSE visit_node_returns(t, Head(ns)) + visit_children_returns(t, Tail(ns))

calculate_return_count(t, n) == visit_node_returns(t, n)

----------------------------------------------------------------------------
(* calculate_test_scoring and its five sub-scores.                         *)

Min(a, b) == IF a <= b THEN a ELSE b

\* Every node of the subtree of n, n included, in the order of the walk.
RECURSIVE subtree(_, _), subtrees(_, _)
subtree(t, n) == <<n>> \o subtrees(t, t[n].kids)

subtrees(t, ns) ==
    IF ns = <<>> THEN <<>> ELSE subtree(t, Head(ns)) \o subtrees(t, Tail(ns))

Range(s) == {s[i] : i \in 1..Len(s)}

analyze_parameters(t, declarator) ==
    LET lists == {c \in Range(t[declarator].kids) : t[c].kind = "parameter_list"}
        params == {q \in 1..Len(t) : \E l \in lists : q \in Range(t[l].kids)}
        declared == {q \in params : t[q].kind = "parameter_declaration"}
        param_count == Cardinality(declared)
        is_void_ptr(q) == contains(t[q].text, "void*") \/ contains(t[q].text, "void *")
        is_function_pointer(q) ==
            ~is_void_ptr(q) /\ (contains(t[q].text, "(*") \/ contains(t[q].text, "* )"))
        is_pointer(q) ==
            ~is_void_ptr(q) /\ ~is_function_pointer(q) /\ contains(t[q].text, "*")
        has_void_ptr == \E q \in declared : is_void_ptr(q)
        has_function_pointer == \E q \in declared : is_function_pointer(q)
        has_pointer == \E q \in declared : is_pointer(q)
        has_variadic == \E q \in params : t[q].kind = "variadic_parameter"
    IN  IF has_function_pointer \/ has_void_ptr \/ has_variadic THEN 10
        ELSE IF has_pointer /\ param_count > 1 THEN 8
        ELSE IF has_pointer THEN 6
        ELSE IF param_count > 1 THEN 4
        ELSE IF param_count = 1 THEN 2
        ELSE 0

analyze_return_type(t, type_node) ==
    LET type_text == t[type_node].text
    IN  IF contains(type_text, "void") /\ ~contains(type_text, "*") THEN 0
        ELSE IF contains(type_text, "struct") THEN 10
        ELSE IF contains(type_text, "*") THEN 6
        ELSE IF contains(type_text, "enum") THEN 4
        ELSE 2

\* The loop of calculate_signature_complexity over the children of `node`:
\* a later child overwrites what an earlier one set.
RECURSIVE signature_scores(_, _, _)
signature_scores(t, ns, sofar) ==
    IF ns = <<>> THEN sofar
    ELSE LET child == Head(ns)
             declarator == child_by_field_name(t, child, "declarator")
             type_node == child_by_field_name(t, child, "type")
             next ==
                 IF t[child].kind = "function_definition" THEN
                     IF declarator # NoNode
                     THEN [input |-> analyze_parameters(t, declarator),
                           output |-> IF type_node # NoNode
                                      THEN analyze_return_type(t, type_node)
                                      ELSE sofar.output]
                     ELSE sofar
                 ELSE IF t[child].kind = "declaration" THEN
                     [input |-> IF declarator # NoNode
                                THEN analyze_parameters(t, declarator) ELSE sofar.input,
                      output |-> IF type_node # NoNode
                                 THEN analyze_return_type(t, type_node) ELSE sofar.output]
                 ELSE sofar
         IN  signature_scores(t, Tail(ns), next)

calculate_signature_complexity(t, node) ==
    LET found == signature_scores(t, t[node].kids, [input |-> 0, output |-> 0])
    IN  Min(found.input + found.output, 10)

\* The names visit_node_dependencies and visit_node_observability match.
DependencyIo ==
    {"fopen", "fclose", "fread", "fwrite", "fprintf", "fscanf", "fgets", "fputs",
     "fseek", "ftell", "rewind", "printf", "scanf", "puts", "getc", "putc"}
DependencyAllocation == {"malloc", "calloc", "realloc", "free", "aligned_alloc"}
DependencySystem ==
    {"time", "clock", "rand", "srand", "getpid", "fork", "exec", "system",
     "signal", "kill", "wait", "pipe"}
ObservableIo ==
    {"fopen", "fclose", "fread", "fwrite", "fprintf", "printf", "scanf", "puts"}
ObservableRandom == {"rand", "srand", "random"}
ObservableTime == {"time", "clock", "gettimeofday"}

is_uppercase(c) ==
    c \in {"A", "B", "C", "D", "E", "F", "G", "H", "I", "J", "K", "L", "M",
           "N", "O", "P", "Q", "R", "S", "T", "U", "V", "W", "X", "Y", "Z"}

\* Whether some call_expression of the subtree names a function of `names`.
calls_any(t, node, names) ==
    \E c \in Range(subtree(t, node)) :
        /\ t[c].kind = "call_expression"
        /\ child_by_field_name(t, c, "function") # NoNode
        /\ t[child_by_field_name(t, c, "function")].text \in names

modifies_globals(t, node) ==
    \E a \in Range(subtree(t, node)) :
        /\ t[a].kind = "assignment_expression"
        /\ LET left == child_by_field_name(t, a, "left")
           IN  /\ left # NoNode
               /\ t[left].kind = "identifier"
               /\ t[left].text # ""
               /\ is_uppercase(SubSeq(t[left].text, 1, 1))

dependency_uncapped(t, node) ==
    (IF modifies_globals(t, node) THEN 6 ELSE 0)
    + (IF calls_any(t, node, DependencyIo) THEN 2 ELSE 0)
    + (IF calls_any(t, node, DependencyAllocation) THEN 3 ELSE 0)
    + (IF calls_any(t, node, DependencySystem) THEN 2 ELSE 0)
calculate_dependency_score(t, node) == Min(dependency_uncapped(t, node), 10)

calculate_observable_behavior_score(t, node) ==
    LET void_definitions ==
            SelectSeq(t[node].kids,
                      LAMBDA c : /\ t[c].kind = "function_definition"
                                 /\ child_by_field_name(t, c, "type") # NoNode
                                 /\ LET type_text == t[child_by_field_name(t, c, "type")].text
                                    IN  contains(type_text, "void") /\ ~contains(type_text, "*"))
    IN  Min(4 * Len(void_definitions)
            + (IF calls_any(t, node, ObservableIo) THEN 2 ELSE 0)
            + (IF calls_any(t, node, ObservableRandom) THEN 3 ELSE 0)
            + (IF calls_any(t, node, ObservableTime) THEN 2 ELSE 0), 10)

map_cyclomatic_to_implementation_score(cyclomatic) ==
    IF cyclomatic \in 1..5 THEN (cyclomatic - 1) \div 2
    ELSE IF cyclomatic \in 6..10 THEN 3 + (cyclomatic - 6) \div 2
    ELSE IF cyclomatic \in 11..20 THEN 6 + (cyclomatic - 11) \div 5
    ELSE Min(9, 10)

\* The score of the comment before the function, before the cap.
documentation_tags(comment_text) ==
    4 + (IF contains(comment_text, "@intent") THEN 5 ELSE 0)
      + (IF contains(comment_text, "@param") THEN 2 ELSE 0)
      + (IF contains(comment_text, "@return") THEN 2 ELSE 0)
      + (IF contains(comment_text, "@requires") THEN 2 ELSE 0)
      + (IF contains(comment_text, "@ensures") THEN 2 ELSE 0)
      + (IF contains(comment_text, "@side_effects") THEN 2 ELSE 0)
      + (IF contains(comment_text, "@example") THEN 3 ELSE 0)
      + (IF contains(comment_text, "@edge_cases") THEN 2 ELSE 0)
      + (IF contains(comment_text, "@complexity") THEN 2 ELSE 0)

documentation_uncapped(t, node) ==
    LET before == prev_sibling(t, node)
    IN  IF before = NoNode \/ t[before].kind # "comment" THEN 0
        ELSE IF contains(t[before].text, "/**") \/ contains(t[before].text, "///")
             THEN documentation_tags(t[before].text)
        ELSE IF starts_with(t[before].text, "//") \/ starts_with(t[before].text, "/*")
             THEN 2
        ELSE 0

calculate_documentation_score(t, node) ==
    LET before == prev_sibling(t, node)
    IN  IF before = NoNode \/ t[before].kind # "comment" THEN 0
        ELSE IF contains(t[before].text, "/**") \/ contains(t[before].text, "///")
             THEN Min(documentation_tags(t[before].text), 10)
        ELSE IF starts_with(t[before].text, "//") \/ starts_with(t[before].text, "/*")
             THEN 2
        ELSE 0

calculate_test_scoring(t, node) ==
    LET signature == calculate_signature_complexity(t, node)
        dependency == calculate_dependency_score(t, node)
        observable == calculate_observable_behavior_score(t, node)
        mccabe == calculate_mccabe_complexity(t, node)
        implementation == map_cyclomatic_to_implementation_score(mccabe)
        documentation == calculate_documentation_score(t, node)
    IN  [signature_score |-> signature,
         dependency_score |-> dependency,
         observable_score |-> observable,
         implementation_score |-> implementation,
         documentation_score |-> documentation,
         total_score |-> signature + dependency + observable + implementation - documentation]

----------------------------------------------------------------------------
(* Function discovery and collect_function_metrics (src/main.rs).          *)

NoName == "<None>"

RECURSIVE get_declarator_name(_, _), declarator_name_among(_, _)
get_declarator_name(t, n) == declarator_name_among(t, t[n].kids)

declarator_name_among(t, ns) ==
    IF ns = <<>> THEN NoName
    ELSE LET child == Head(ns)
         IN  IF t[child].kind = "identifier" THEN t[child].text
             ELSE IF /\ t[child].kind \in {"pointer_declarator", "function_declarator"}
                     /\ get_declarator_name(t, child) # NoName
                  THEN get_declarator_name(t, child)
             ELSE declarator_name_among(t, Tail(ns))

\* get_function_name and get_function_name_from_declarator are the same loop.
RECURSIVE get_function_name(_, _), function_name_among(_, _)
get_function_name(t, n) == function_name_among(t, t[n].kids)

function_name_among(t, ns) ==
    IF ns = <<>> THEN NoName
    ELSE LET child == Head(ns)
         IN  IF t[child].kind = "function_declarator" THEN get_declarator_name(t, child)
             ELSE IF /\ t[child].kind = "pointer_declarator"
                     /\ get_function_name(t, child) # NoName
                  THEN get_function_name(t, child)
             ELSE function_name_among(t, Tail(ns))

\* visit_functions: the function_definition nodes in pre-order from the root.
visit_functions(t) ==
    SelectSeq(subtree(t, 1), LAMBDA n : t[n].kind = "function_definition")

\* The record pushed for one function.  The code keeps abc.magnitude(), the
\* root of a*a + b*b + c*c; the triple it is taken from is kept here.
function_metrics(t, lines, node) ==
    [name |-> get_function_name(t, node),
     mccabe |-> calculate_mccabe_complexity(t, node),
     cognitive |-> calculate_cognitive_complexity(t, node),
     nesting |-> calculate_nesting_depth(t, node),
     sloc |-> calculate_sloc(lines),
     abc |-> calculate_abc_complexity(t, node),
     return_count |-> calculate_return_count(t, node),
     test_scoring |-> calculate_test_scoring(t, node)]

collect_function_metrics(t, lines) ==
    LET named == SelectSeq(visit_functions(t),
                           LAMBDA n : get_function_name(t, n) # NoName)
    IN  [i \in 1..Len(named) |-> function_metrics(t, lines, named[i])]

----------------------------------------------------------------------------
(* The files under analysis.  A file holds one function, with or without   *)
(* a comment before it; its body is written one construct at a time, in    *)
(* source order, so every tree is reached along one path.                  *)

Offset(ks, n) == [j \in 1..Len(ks) |-> ks[j] + n]

\* The tree t with the nodes of `template` added, the first of them as the
\* last child of p.  A template numbers its own nodes from 1.
Graft(t, p, template) ==
    LET n == Len(t)
    IN  [i \in 1..(n + Len(template)) |->
            IF i = p THEN [t[i] EXCEPT !.kids = Append(@, n + 1)]
            ELSE IF i <= n THEN t[i]
            ELSE [template[i - n] EXCEPT !.kids = Offset(@, n)]]

\* The tree t with node i replaced by the first node of `template` (which
\* keeps i's field) and the rest of the template added.
Regrow(t, i, template) ==
    LET n == Len(t)
    IN  [j \in 1..(n + Len(template) - 1) |->
            IF j = i THEN [template[1] EXCEPT !.field = t[i].field,
                                              !.kids = Offset(@, n - 1)]
            ELSE IF j <= n THEN t[j]
            ELSE [template[j - n + 1] EXCEPT !.kids = Offset(@, n - 1)]]

TypeKind(type_text) ==
    IF contains(type_text, "struct") THEN "struct_specifier"
    ELSE IF contains(type_text, "enum") THEN "enum_specifier"
    ELSE "primitive_type"

ParameterNode(param_text) ==
    Node(IF param_text = "..." THEN "variadic_parameter" ELSE "parameter_declaration",
         "", param_text, <<>>)

\* `ret f(params) { }`, after the comment `doc` when doc is not "".  A
\* pointer return type puts the function_declarator under a pointer_declarator.
File(ret, params, doc) ==
    LET np == Len(params)
        pointer == 8 + np
        comment == IF ret.pointer THEN 9 + np ELSE 8 + np
    IN  <<Node("translation_unit", "", "", IF doc = "" THEN <<2>> ELSE <<comment, 2>>),
          Node("function_definition", "", "",
               <<3, IF ret.pointer THEN pointer ELSE 5, 4>>),
          Node(TypeKind(ret.text), "type", ret.text, <<>>),
          Node("compound_statement", "body", "", <<>>),
          Node("function_declarator", "declarator", "", <<6, 7>>),
          Node("identifier", "declarator", "f", <<>>),
          Node("parameter_list", "parameters", "", [i \in 1..np |-> 7 + i])>>
        \o [i \in 1..np |-> ParameterNode(params[i])]
        \o (IF ret.pointer THEN <<Node("pointer_declarator", "declarator", "", <<5>>)>>
            ELSE <<>>)
        \o (IF doc = "" THEN <<>> ELSE <<Node("comment", "", doc, <<>>)>>)

Void == [text |-> "void", pointer |-> FALSE]

\* The nodes of one statement of kind k, and the lines it is written on.
ControlKinds ==
    {"if_statement", "while_statement", "for_statement", "switch_statement",
     "catch_clause"}

StatementNodes(k) ==
    CASE k \in ControlKinds ->
             <<Node(k, "", "", <<2, 4>>),
               Node("parenthesized_expression", "condition", "", <<3>>),
               Node("identifier", "", "c", <<>>),
               Node("compound_statement",
                    IF k = "if_statement" THEN "consequence" ELSE "body", "", <<>>)>>
      [] k = "do_statement" ->
             <<Node(k, "", "", <<2, 3>>),
               Node("compound_statement", "body", "", <<>>),
               Node("parenthesized_expression", "condition", "", <<4>>),
               Node("identifier", "", "c", <<>>)>>
      [] k = "case_statement" ->
             <<Node(k, "", "", <<2>>), Node("number_literal", "value", "1", <<>>)>>
      [] k = "declaration" ->
             <<Node(k, "", "", <<2, 3>>),
               Node("primitive_type", "type", "int", <<>>),
               Node("init_declarator", "declarator", "", <<4, 5>>),
               Node("identifier", "declarator", "x", <<>>),
               Node("number_literal", "value", "1", <<>>)>>
      [] k = "expression_statement" ->
             <<Node(k, "", "", <<2>>), Node("identifier", "", "x", <<>>)>>
      [] k = "update_expression" ->
             <<Node("expression_statement", "", "", <<2>>),
               Node(k, "", "", <<3, 4>>),
               Node("identifier", "argument", "x", <<>>),
               Node("++", "operator", "++", <<>>)>>
      [] k = "comment" -> <<Node(k, "", "// c", <<>>)>>
      [] OTHER -> <<Node(k, "", "", <<>>)>>

StatementLines(k) ==
    CASE k = "if_statement" -> <<"if (c) {", "}">>
      [] k = "while_statement" -> <<"while (c) {", "}">>
      [] k = "for_statement" -> <<"for (;c;) {", "}">>
      [] k = "switch_statement" -> <<"switch (c) {", "}">>
      [] k = "catch_clause" -> <<"catch (c) {", "}">>
      [] k = "do_statement" -> <<"do {", "} while (c);">>
      [] k = "case_statement" -> <<"case 1:">>
      [] k = "declaration" -> <<"int x = 1;">>
      [] k = "expression_statement" -> <<"x;">>
      [] k = "update_expression" -> <<"x++;">>
      [] k = "comment" -> <<"// c">>
      [] k = "goto_statement" -> <<"goto l;">>
      [] k = "break_statement" -> <<"break;">>
      [] k = "continue_statement" -> <<"continue;">>
      [] k = "return_statement" -> <<"return;">>
      [] OTHER -> <<";">>

\* The lines of the function with `lines` written before its closing brace.
\* No line written here opens a comment that another closes, so the order
\* of the lines within the body does not change what calculate_sloc counts.
Write(text, lines) ==
    SubSeq(text, 1, Len(text) - 1) \o lines \o <<text[Len(text)]>>

\* The blocks still open at the end of the text written so far: the last
\* statement-bearing child, repeatedly, from the root.
Structural ==
    {"translation_unit", "function_definition", "compound_statement",
     "if_statement", "while_statement", "do_statement", "for_statement",
     "switch_statement", "case_statement", "else_clause", "catch_clause"}

RECURSIVE spine(_, _)
spine(t, n) ==
    LET bearing == SelectSeq(t[n].kids, LAMBDA c : t[c].kind \in Structural)
    IN  IF bearing = <<>> THEN {n} ELSE {n} \cup spine(t, bearing[Len(bearing)])

OpenBlocks(t) ==
    {c \in spine(t, 1) : t[c].kind \in {"compound_statement", "case_statement"}}

\* case labels stand in the block of a switch, and not under another label.
MayHold(t, c, k) ==
    IF k = "case_statement"
    THEN /\ t[c].kind = "compound_statement"
         /\ t[Parent(t, c)].kind = "switch_statement"
    ELSE TRUE

\* A statement of one of `kinds` is written at the end of an open block.
AddStatement(kinds, bound) ==
    /\ pc = "build"
    /\ steps < bound
    /\ \E c \in OpenBlocks(ast), k \in kinds :
         /\ MayHold(ast, c, k)
         /\ ast' = Graft(ast, c, StatementNodes(k))
         /\ src' = Write(src, StatementLines(k))
    /\ steps' = steps + 1
    /\ UNCHANGED <<pc, metrics, prev>>
    /\ UNCHANGED slocVars
    /\ UNCHANGED toolVars

HasElse(t, i) == \E j \in 1..Len(t[i].kids) : t[t[i].kids[j]].kind = "else_clause"

OpenIfs(t) == {i \in spine(t, 1) : t[i].kind = "if_statement" /\ ~HasElse(t, i)}

ElseNodes ==
    <<Node("else_clause", "alternative", "", <<2>>),
      Node("compound_statement", "", "", <<>>)>>

ElseIfNodes ==
    <<Node("else_clause", "alternative", "", <<2>>),
      Node("if_statement", "", "", <<3, 5>>),
      Node("parenthesized_expression", "condition", "", <<4>>),
      Node("identifier", "", "c", <<>>),
      Node("compound_statement", "consequence", "", <<>>)>>

\* `else { }` is written after an if that has no else yet.
AddElse(bound) ==
    /\ pc = "build"
    /\ steps < bound
    /\ \E i \in OpenIfs(ast) :
         /\ ast' = Graft(ast, i, ElseNodes)
         /\ src' = Write(src, <<"else {", "}">>)
    /\ steps' = steps + 1
    /\ UNCHANGED <<pc, metrics, prev>>
    /\ UNCHANGED slocVars
    /\ UNCHANGED toolVars

\* `else if (c) { }` is written after an if that has no else yet.
AddElseIf(bound) ==
    /\ pc = "build"
    /\ steps < bound
    /\ \E i \in OpenIfs(ast) :
         /\ ast' = Graft(ast, i, ElseIfNodes)
         /\ src' = Write(src, <<"else if (c) {", "}">>)
    /\ steps' = steps + 1
    /\ UNCHANGED <<pc, metrics, prev>>
    /\ UNCHANGED slocVars
    /\ UNCHANGED toolVars

\* `name();` and `name = v;` are written at the end of an open block.
CallNodes(name) ==
    <<Node("expression_statement", "", "", <<2>>),
      Node("call_expression", "", "", <<3, 4>>),
      Node("identifier", "function", name, <<>>),
      Node("argument_list", "arguments", "", <<>>)>>

AssignmentNodes(name) ==
    <<Node("expression_statement", "", "", <<2>>),
      Node("assignment_expression", "", "", <<3, 4, 5>>),
      Node("identifier", "left", name, <<>>),
      Node("=", "operator", "=", <<>>),
      Node("identifier", "right", "v", <<>>)>>

AddCall(names, bound) ==
    /\ pc = "build"
    /\ steps < bound
    /\ \E c \in OpenBlocks(ast), name \in names :
         /\ ast' = Graft(ast, c, CallNodes(name))
         /\ src' = Write(src, <<name \o "();">>)
    /\ steps' = steps + 1
    /\ UNCHANGED <<pc, metrics, prev>>
    /\ UNCHANGED slocVars
    /\ UNCHANGED toolVars

AddAssignment(names, bound) ==
    /\ pc = "build"
    /\ steps < bound
    /\ \E c \in OpenBlocks(ast), name \in names :
         /\ ast' = Graft(ast, c, AssignmentNodes(name))
         /\ src' = Write(src, <<name \o " = v;">>)
    /\ steps' = steps + 1
    /\ UNCHANGED <<pc, metrics, prev>>
    /\ UNCHANGED slocVars
    /\ UNCHANGED toolVars

\* An operand of an expression is rewritten into a larger expression.  The
\* tree is the one the C grammar gives the text: || binds looser than &&,
\* && looser than ==, all three associate to the left, and anything looser
\* than its place allows stands in parentheses.
BinaryOperators == {"||", "&&", "=="}

Precedence(o) == CASE o = "||" -> 1 [] o = "&&" -> 2 [] OTHER -> 3

ExpressionNodes(form) ==
    CASE form \in BinaryOperators ->
             <<Node("binary_expression", "", "", <<2, 3, 4>>),
               Node("identifier", "left", "a", <<>>),
               Node(form, "operator", form, <<>>),
               Node("identifier", "right", "b", <<>>)>>
      [] form = "?:" ->
             <<Node("conditional_expression", "", "", <<2, 3, 4>>),
               Node("identifier", "condition", "a", <<>>),
               Node("identifier", "consequence", "b", <<>>),
               Node("identifier", "alternative", "c", <<>>)>>
      [] OTHER ->
             <<Node("parenthesized_expression", "", "", <<2>>),
               Node("identifier", "", "a", <<>>)>>

Operands(t) ==
    {i \in 1..Len(t) :
        /\ t[i].kind = "identifier"
        /\ Parent(t, i) # NoNode
        /\ t[Parent(t, i)].kind \in {"expression_statement", "parenthesized_expression",
                                     "binary_expression", "conditional_expression"}}

MayGrow(t, i, form) ==
    LET p == Parent(t, i)
    IN  IF form = "()" THEN TRUE
        ELSE IF t[p].kind = "binary_expression" THEN
            /\ form \in BinaryOperators
            /\ IF t[i].field = "left"
               THEN Precedence(form) >= Precedence(operator_text(t, p))
               ELSE Precedence(form) > Precedence(operator_text(t, p))
        ELSE IF t[p].kind = "conditional_expression" THEN form \in BinaryOperators
        ELSE TRUE

Grow(forms, bound) ==
    /\ pc = "build"
    /\ steps < bound
    /\ \E i \in Operands(ast), form \in forms :
         /\ MayGrow(ast, i, form)
         /\ ast' = Regrow(ast, i, ExpressionNodes(form))
    /\ steps' = steps + 1
    /\ UNCHANGED <<src, pc, metrics, prev>>
    /\ UNCHANGED slocVars
    /\ UNCHANGED toolVars

\* The metric scan runs on the file: collect_function_metrics.
Analyze ==
    /\ pc = "build"
    /\ metrics' = collect_function_metrics(ast, src)
    /\ pc' = "done"
    /\ UNCHANGED <<ast, src, steps, prev>>
    /\ UNCHANGED slocVars
    /\ UNCHANGED toolVars

----------------------------------------------------------------------------
(* Spec: the scan of `void f() { ... }` over every kind of statement.      *)

\* Most constructs written into the body of the function.
MaxStatements == 3

StatementKinds ==
    {"if_statement", "while_statement", "do_statement", "for_statement",
     "switch_statement", "case_statement", "goto_statement", "declaration",
     "expression_statement"}

InitFile(ret, params, doc) ==
    /\ ast = File(ret, params, doc)
    /\ src = <<ret.text \o " f(){", "}">>
    /\ pc = "build"
    /\ steps = 0
    /\ metrics = <<>>
    /\ prev = <<>>

Init ==
    /\ InitFile(Void, <<>>, "")
    /\ SlocInit
    /\ ToolIdle

Next ==
    \/ AddStatement(StatementKinds, MaxStatements)
    \/ AddElse(MaxStatements)
    \/ Grow({"&&", "||", "==", "?:"}, MaxStatements)
    \/ Analyze

Spec == Init /\ [][Next]_vars

----------------------------------------------------------------------------
(* SpecSloc: calculate_sloc on the lines of a function, line by line.      *)

InitSloc ==
    /\ InitFile(Void, <<>>, "")
    /\ SlocInit
    /\ ToolIdle

NextSloc ==
    \/ SlocEnter
    \/ ScanLine
    \/ SlocReturn

SpecSloc == InitSloc /\ [][NextSloc]_vars

----------------------------------------------------------------------------
(* Properties of calculate_sloc, under SpecSloc.                           *)

\* What a scan of one line that knows C's comments finds: whether the line
\* holds a byte that is neither whitespace nor inside a comment, and whether
\* a block comment is open at its end.
RECURSIVE comment_scan(_, _, _)
comment_scan(in_comment, code, rest) ==
    IF rest = "" THEN [in_comment |-> in_comment, code |-> code]
    ELSE IF in_comment THEN
        IF starts_with(rest, "*/")
        THEN comment_scan(FALSE, code, SubSeq(rest, 3, Len(rest)))
        ELSE comment_scan(TRUE, code, SubSeq(rest, 2, Len(rest)))
    ELSE IF starts_with(rest, "/*")
        THEN comment_scan(TRUE, code, SubSeq(rest, 3, Len(rest)))
    ELSE IF starts_with(rest, "//")
        THEN [in_comment |-> FALSE, code |-> code]
    ELSE comment_scan(FALSE, code \/ ~is_ascii_whitespace(SubSeq(rest, 1, 1)),
                      SubSeq(rest, 2, Len(rest)))

\* A step of the loop: line' is the line it read.
ScansALine == slocPc = "loop" /\ nlines' = nlines + 1

\* C6: a line that starts, after trimming, with // and is read outside a
\* block comment is never counted and leaves in_multiline_comment as it was,
\* whatever follows the // on that line.
C6_LineCommentIsSkipped ==
    [][(ScansALine /\ ~in_multiline_comment /\ starts_with(trim_bytes(line'), "//"))
          => (sloc' = sloc /\ in_multiline_comment' = in_multiline_comment)]_vars

\* C7: a line is counted iff it holds something other than whitespace
\* outside comments, and a block comment is open after a line iff the text
\* up to the end of that line leaves one open.  (Lines that begin with //
\* outside a block comment are C6's.)
C7_CountsCodeOutsideComments ==
    [][(ScansALine /\ (in_multiline_comment \/ ~starts_with(trim_bytes(line'), "//")))
          => LET found == comment_scan(in_multiline_comment, FALSE, line')
             IN  /\ sloc' = sloc + (IF found.code THEN 1 ELSE 0)
                 /\ in_multiline_comment' = found.in_comment]_vars

----------------------------------------------------------------------------
(* The tree read from the parent links, for the properties below: they     *)
(* count nodes by position and never walk the children as the folds do.    *)

RECURSIVE AncestorsOrSelf(_, _)
AncestorsOrSelf(t, n) ==
    IF n = NoNode THEN {} ELSE {n} \cup AncestorsOrSelf(t, Parent(t, n))

Ancestors(t, n) == AncestorsOrSelf(t, Parent(t, n))

\* The nodes of `level` and everything below them, one generation at a time.
RECURSIVE Below(_, _)
Below(t, level) ==
    IF level = {} THEN {}
    ELSE level \cup Below(t, UNION {{t[x].kids[j] : j \in 1..Len(t[x].kids)} : x \in level})

Within(t, n) == Below(t, {n})

OfKind(t, n, kinds) == {d \in Within(t, n) : t[d].kind \in kinds}

\* The function_definition the i-th record of `metrics` is of.
FunctionOf(i) == visit_functions(ast)[i]

Analysed == pc = "done" /\ Len(metrics) = 1

HasOperatorToken(t, n, tokens) ==
    \E j \in 1..Len(t[n].kids) : t[t[n].kids[j]].kind \in tokens

----------------------------------------------------------------------------
(* Properties of the scan, under Spec.                                     *)

\* C1: mccabe is 1, plus the number of if, while, do, for, switch, ?: and
\* goto nodes of the function, plus the number of its binary expressions
\* with && or ||; case labels and else clauses add nothing.
C1_McCabeCountsDecisions ==
    Analysed =>
        LET f == FunctionOf(1)
            decisions == OfKind(ast, f, {"if_statement", "while_statement", "do_statement",
                                         "for_statement", "switch_statement",
                                         "conditional_expression", "goto_statement"})
            logical == {b \in OfKind(ast, f, {"binary_expression"}) :
                            HasOperatorToken(ast, b, {"&&", "||"})}
        IN  /\ metrics[1].mccabe = 1 + Cardinality(decisions) + Cardinality(logical)
            /\ metrics[1].mccabe >= 1

\* A switch with two case labels, and nothing else that decides: mccabe 2.
C1_SwitchWithTwoCases ==
    /\ Analysed
    /\ Cardinality(OfKind(ast, FunctionOf(1), {"switch_statement"})) = 1
    /\ Cardinality(OfKind(ast, FunctionOf(1), {"case_statement"})) = 2
    /\ metrics[1].mccabe = 2

\* The function of scenario S1: its body is the one declaration `int x = 1;`,
\* on a line of its own between the signature and the closing brace.
IsS1 ==
    LET body == child_by_field_name(ast, FunctionOf(1), "body")
    IN  /\ Len(ast) = 12
        /\ Len(ast[body].kids) = 1
        /\ ast[ast[body].kids[1]].kind = "declaration"
        /\ OfKind(ast, body, {"init_declarator"}) # {}
        /\ src = <<"void f(){", "int x = 1;", "}">>

\* C8 as the spec states it: the initialised declaration counts as one
\* assignment, abc = (1, 0, 0).
C8_S1AsStated ==
    (Analysed /\ IsS1) =>
        /\ metrics[1].mccabe = 1
        /\ metrics[1].cognitive = 0
        /\ metrics[1].nesting = 1
        /\ metrics[1].abc = [assignments |-> 1, branches |-> 0, conditions |-> 0]
        /\ metrics[1].return_count = 0
        /\ metrics[1].sloc = 3

\* C8, amended: a declaration with an initialiser is no assignment_expression
\* and adds nothing to A, so abc = (0, 0, 0); the rest is as stated.
C8_S1Metrics ==
    (Analysed /\ IsS1) =>
        /\ metrics[1].mccabe = 1
        /\ metrics[1].cognitive = 0
        /\ metrics[1].nesting = 1
        /\ metrics[1].abc = [assignments |-> 0, branches |-> 0, conditions |-> 0]
        /\ metrics[1].return_count = 0
        /\ metrics[1].sloc = 3

C8_S1Analysed == Analysed /\ IsS1 /\ metrics[1].name = "f"

----------------------------------------------------------------------------
(* SpecNest: the scan of a function made of control structures, nested in  *)
(* and after one another, with the jumps and labels that go in them.       *)

\* Most constructs written into the body of the function.
MaxNest == 3

NestKinds ==
    {"if_statement", "while_statement", "do_statement", "for_statement",
     "switch_statement", "catch_clause", "case_statement", "break_statement",
     "continue_statement"}

InitNest ==
    /\ InitFile(Void, <<>>, "")
    /\ SlocInit
    /\ ToolIdle

NextNest ==
    \/ AddStatement(NestKinds, MaxNest)
    \/ Analyze

SpecNest == InitNest /\ [][NextNest]_vars

NestingKinds ==
    {"if_statement", "while_statement", "do_statement", "for_statement",
     "switch_statement", "catch_clause"}

\* The pairs (a, x) of `nodes` with a above x in the tree.
Enclosures(t, nodes) == {ax \in nodes \X nodes : ax[1] \in Ancestors(t, ax[2])}

\* All of `nodes` lie on one path from the root: each is inside the others
\* above it.
IsNest(t, nodes) ==
    \A a \in nodes, x \in nodes : a = x \/ a \in Ancestors(t, x) \/ x \in Ancestors(t, a)

\* C2: each if, while, do, for, switch and catch adds 1 plus the number of
\* such structures around it, so k of them nested one in another add
\* k(k+1)/2 in total.
C2_NestingPenalty ==
    Analysed =>
        LET control == OfKind(ast, FunctionOf(1), NestingKinds)
            k == Cardinality(control)
        IN  /\ metrics[1].cognitive = k + Cardinality(Enclosures(ast, control))
            /\ IsNest(ast, control) => 2 * metrics[1].cognitive = k * (k + 1)

\* Three structures nested one in another: 1 + 2 + 3.
C2_ThreeNested ==
    /\ Analysed
    /\ Cardinality(OfKind(ast, FunctionOf(1), NestingKinds)) = 3
    /\ IsNest(ast, OfKind(ast, FunctionOf(1), NestingKinds))
    /\ metrics[1].cognitive = 6

----------------------------------------------------------------------------
(* SpecChain: the scan of a function of loops and if / else if / else      *)
(* chains.                                                                 *)

\* Most constructs written into the body of the function.
MaxChain == 4

InitChain ==
    /\ InitFile(Void, <<>>, "")
    /\ SlocInit
    /\ ToolIdle

NextChain ==
    \/ AddStatement({"if_statement", "while_statement"}, MaxChain)
    \/ AddElseIf(MaxChain)
    \/ AddElse(MaxChain)
    \/ Analyze

SpecChain == InitChain /\ [][NextChain]_vars

\* The ifs that begin a chain: those that are not the `if` of an `else if`.
ChainHeads(t, n) ==
    {i \in OfKind(t, n, {"if_statement"}) : t[Parent(t, i)].kind # "else_clause"}

\* The function is n loops nested one in another around one chain, with
\* nothing else in any block: if, k times else if, and a closing else.
IsChainIn(t, f, n, k) ==
    LET loops == OfKind(t, f, {"while_statement"})
        ifs == OfKind(t, f, {"if_statement"})
        elses == OfKind(t, f, {"else_clause"})
        heads == ChainHeads(t, f)
    IN  /\ Cardinality(loops) = n
        /\ Cardinality(heads) = 1
        /\ Cardinality(ifs) = k + 1
        /\ Cardinality(elses) = k + 1
        /\ \A h \in heads : loops \subseteq Ancestors(t, h)
        /\ \A i \in ifs : Within(t, child_by_field_name(t, i, "consequence")) \cap (loops \cup ifs) = {}

\* C3: `else if` adds 1 and a plain `else` adds 1, whatever the nesting, and
\* the if of an `else if` adds no nesting penalty of its own; in n nested
\* loops, if / k times else if / else adds (1+n)+k+1 to cognitive and k+1 to
\* mccabe.
C3_ElseChain ==
    Analysed =>
        LET f == FunctionOf(1)
            nesting == OfKind(ast, f, {"while_statement"}) \cup ChainHeads(ast, f)
            elses == OfKind(ast, f, {"else_clause"})
            n == Cardinality(OfKind(ast, f, {"while_statement"}))
            k == Cardinality(OfKind(ast, f, {"if_statement"})) - 1
        IN  /\ metrics[1].cognitive =
                   Cardinality(nesting) + Cardinality(Enclosures(ast, nesting))
                     + Cardinality(elses)
            /\ IsChainIn(ast, f, n, k) =>
                   /\ 2 * metrics[1].cognitive = n * (n + 1) + 2 * ((1 + n) + k + 1)
                   /\ metrics[1].mccabe = 1 + n + (k + 1)

\* if / else if / else in one loop: (1+1)+1+1 on top of the loop's 1.
C3_ChainInLoop ==
    /\ Analysed
    /\ IsChainIn(ast, FunctionOf(1), 1, 1)
    /\ metrics[1].cognitive = 5
    /\ metrics[1].mccabe = 4

----------------------------------------------------------------------------
(* SpecExpr: the scan of `void f() { if (c) { } }` as the condition grows  *)
(* into an expression of &&, ||, == and parentheses.                       *)

\* Most rewrites of the condition.
MaxOperators == 3

InitExpr ==
    /\ ast = Graft(File(Void, <<>>, ""), 4, StatementNodes("if_statement"))
    /\ src = <<"void f(){", "if (c) {", "}", "}">>
    /\ pc = "build"
    /\ steps = 0
    /\ metrics = <<>>
    /\ prev = <<>>
    /\ SlocInit
    /\ ToolIdle

NextExpr ==
    \/ Grow({"&&", "||", "==", "()"}, MaxOperators)
    \/ Analyze

SpecExpr == InitExpr /\ [][NextExpr]_vars

\* The && and || of an expression as they stand in its text, left to right.
RECURSIVE operators_in_order(_, _)
operators_in_order(t, n) ==
    IF t[n].kind = "binary_expression"
    THEN operators_in_order(t, t[n].kids[1])
           \o (IF t[t[n].kids[2]].kind \in {"&&", "||"} THEN <<t[t[n].kids[2]].kind>> ELSE <<>>)
           \o operators_in_order(t, t[n].kids[3])
    ELSE IF t[n].kind = "parenthesized_expression"
    THEN operators_in_order(t, t[n].kids[1])
    ELSE <<>>

\* The condition is built of && and || alone: no other operator stands
\* between two logical operators.
OnlyLogical(t, n) ==
    \A b \in OfKind(t, n, {"binary_expression"}) : HasOperatorToken(t, b, {"&&", "||"})

TheCondition == child_by_field_name(ast, CHOOSE i \in 1..Len(ast) : ast[i].kind = "if_statement", "condition")

\* C4: a run of one logical operator adds 1 in all, and every operator that
\* differs from the one before it in the text adds 1: an expression of n
\* alternating operators adds n (`a || b && c || d` adds 3).
C4_LogicalRuns ==
    (Analysed /\ OnlyLogical(ast, TheCondition)) =>
        LET ops == operators_in_order(ast, TheCondition)
            n == Len(ops)
            added == metrics[1].cognitive - 1
        IN  /\ (n >= 1 /\ \A i \in 1..n : ops[i] = ops[1]) => added = 1
            /\ (\A i \in 1..(n - 1) : ops[i] # ops[i + 1]) => added = n

----------------------------------------------------------------------------
(* SpecEdit: a function of loops and if / else chains is scanned, an       *)
(* `if (n)` is then written somewhere into its text, and it is scanned     *)
(* again.  The tree after the edit is the one the C grammar gives the new  *)
(* text.                                                                   *)

\* Most constructs written into the body of the function before the edit.
MaxEdit == 3

\* The tree t with the children of p set to ks and the nodes `added` after
\* its own; `added` names its children by their place in the new tree.
Splice(t, p, ks, added) ==
    [i \in 1..(Len(t) + Len(added)) |->
        IF i = p THEN [t[i] EXCEPT !.kids = ks]
        ELSE IF i <= Len(t) THEN t[i]
        ELSE added[i - Len(t)]]

Replace(ks, x, y) == [j \in 1..Len(ks) |-> IF ks[j] = x THEN y ELSE ks[j]]

InsertAt(ks, j, y) == SubSeq(ks, 1, j) \o <<y>> \o SubSeq(ks, j + 1, Len(ks))

\* `if (n)` with the statement `body` under it, followed by `rest` (an else
\* clause, or nothing), as nodes m+1 .. m+3.
IfAround(m, body, rest) ==
    <<Node("if_statement", "", "", <<m + 2, body>> \o rest),
      Node("parenthesized_expression", "condition", "", <<m + 3>>),
      Node("identifier", "", "n", <<>>)>>

\* The second scan, of the edited text.
Rescan(t, text) ==
    /\ ast' = t
    /\ src' = text
    /\ prev' = metrics
    /\ metrics' = collect_function_metrics(t, text)
    /\ pc' = "edited"
    /\ UNCHANGED steps
    /\ UNCHANGED slocVars
    /\ UNCHANGED toolVars

\* `if (n) { }` is written between two statements of a block, or at either
\* end of it.
InsertIf ==
    /\ pc = "done"
    /\ \E c \in OfKind(ast, FunctionOf(1), {"compound_statement"}) :
         \E j \in 0..Len(ast[c].kids) :
            LET m == Len(ast)
            IN  Rescan(Splice(ast, c, InsertAt(ast[c].kids, j, m + 1),
                              IfAround(m, m + 4, <<>>)
                                \o <<Node("compound_statement", "consequence", "", <<>>)>>),
                       Write(src, <<"if (n) {", "}">>))

\* `if (n) {` is written before a statement of a block and `}` after it.
WrapStatement ==
    /\ pc = "done"
    /\ \E x \in Within(ast, FunctionOf(1)) :
         LET m == Len(ast)
             p == Parent(ast, x)
         IN  /\ ast[p].kind = "compound_statement"
             /\ Rescan(Splice(ast, p, Replace(ast[p].kids, x, m + 1),
                              IfAround(m, m + 4, <<>>)
                                \o <<Node("compound_statement", "consequence", "", <<x>>)>>),
                       Write(src, <<"if (n) {", "}">>))

\* `if (n)` is written before the statement a loop or an else governs:
\* `else { }` becomes `else if (n) { }`.
WrapBody ==
    /\ pc = "done"
    /\ \E x \in Within(ast, FunctionOf(1)) :
         LET m == Len(ast)
             p == Parent(ast, x)
         IN  /\ ast[p].kind \in {"while_statement", "else_clause"}
             /\ ast[x].kind \in {"compound_statement", "if_statement"}
             /\ Rescan(Splice(ast, p, Replace(ast[p].kids, x, m + 1), IfAround(m, x, <<>>)),
                       Write(src, <<"if (n)">>))

\* `if (n)` is written before the statement an if governs; the else of
\* that if, if it has one, now belongs to the new if.
WrapBranch ==
    /\ pc = "done"
    /\ \E i \in OfKind(ast, FunctionOf(1), {"if_statement"}) :
         LET m == Len(ast)
             ks == ast[i].kids
         IN  Rescan(Splice(ast, i, <<ks[1], m + 1>>, IfAround(m, ks[2], SubSeq(ks, 3, Len(ks)))),
                    Write(src, <<"if (n)">>))

\* `else if (n) { }` is written after the block of an if, before the else
\* it may have.
InsertElseIf ==
    /\ pc = "done"
    /\ \E i \in OfKind(ast, FunctionOf(1), {"if_statement"}) :
         LET m == Len(ast)
             ks == ast[i].kids
         IN  Rescan(Splice(ast, i, <<ks[1], ks[2], m + 1>>,
                           <<Node("else_clause", "alternative", "", <<m + 2>>)>>
                             \o IfAround(m + 1, m + 5, SubSeq(ks, 3, Len(ks)))
                             \o <<Node("compound_statement", "consequence", "", <<>>)>>),
                    Write(src, <<"else if (n) {", "}">>))

InitEdit ==
    /\ InitFile(Void, <<>>, "")
    /\ SlocInit
    /\ ToolIdle

NextEdit ==
    \/ AddStatement({"if_statement", "while_statement"}, MaxEdit)
    \/ AddElseIf(MaxEdit)
    \/ AddElse(MaxEdit)
    \/ Analyze
    \/ InsertIf
    \/ WrapStatement
    \/ WrapBody
    \/ WrapBranch
    \/ InsertElseIf

SpecEdit == InitEdit /\ [][NextEdit]_vars

Edited == pc = "edited" /\ Len(metrics) = 1 /\ Len(prev) = 1

\* The if_statement the edit wrote.
TheNewIf ==
    CHOOSE i \in 1..Len(ast) :
        /\ ast[i].kind = "if_statement"
        /\ ast[ast[child_by_field_name(ast, i, "condition")].kids[1]].text = "n"

\* C5: writing one more if_statement into a function never lowers its
\* mccabe, its cognitive complexity or its nesting depth.
C5_InsertingAnIfNeverLowers ==
    Edited =>
        /\ metrics[1].mccabe >= prev[1].mccabe
        /\ metrics[1].cognitive >= prev[1].cognitive
        /\ metrics[1].nesting >= prev[1].nesting

\* The new if stands right under an else, turning `else` into `else if`:
\* the cognitive complexity stays what it was.
C5_ElseBecomesElseIf ==
    /\ Edited
    /\ ast[Parent(ast, TheNewIf)].kind = "else_clause"
    /\ ast[ast[TheNewIf].kids[2]].kind = "compound_statement"
    /\ metrics[1].mccabe = prev[1].mccabe + 1
    /\ metrics[1].cognitive = prev[1].cognitive

----------------------------------------------------------------------------
(* SpecScore: the scan of one documented function `ret f(params) { ... }`  *)
(* whose body calls library functions and assigns to variables.            *)

\* Most statements written into the body of the function.
MaxBody == 3

ReturnTypes ==
    {Void,
     [text |-> "int", pointer |-> FALSE],
     [text |-> "char", pointer |-> TRUE],
     [text |-> "struct s", pointer |-> FALSE]}

ParameterLists == {<<>>, <<"int a">>, <<"char *p", "int n">>, <<"int a", "...">>}

DocComments == {"", "/* c */", "/** @intent @param */"}

CallNames == {"printf", "malloc", "time"}

InitScore ==
    /\ \E ret \in ReturnTypes, params \in ParameterLists, doc \in DocComments :
         InitFile(ret, params, doc)
    /\ SlocInit
    /\ ToolIdle

NextScore ==
    \/ AddCall(CallNames, MaxBody)
    \/ AddAssignment({"G"}, MaxBody)
    \/ AddStatement({"if_statement"}, MaxBody)
    \/ Analyze

SpecScore == InitScore /\ [][NextScore]_vars

\* The output score the return type of the function itself calls for.
OwnOutputScore(t, f) ==
    LET type_text == t[child_by_field_name(t, f, "type")].text
        pointer == t[child_by_field_name(t, f, "declarator")].kind = "pointer_declarator"
    IN  IF contains(type_text, "void") /\ ~pointer THEN 0
        ELSE IF contains(type_text, "struct") THEN 10
        ELSE IF pointer THEN 6
        ELSE IF contains(type_text, "enum") THEN 4
        ELSE 2

\* C9: the signature score of a function is min(10, input + output), input
\* following the function's own parameter list and output its own return
\* type; `int f(int a)` scores 4.
C9_SignatureOfTheFunction ==
    Analysed =>
        LET f == FunctionOf(1)
            declarator == CHOOSE d \in OfKind(ast, f, {"function_declarator"}) : TRUE
        IN  metrics[1].test_scoring.signature_score =
                Min(10, analyze_parameters(ast, declarator) + OwnOutputScore(ast, f))

\* C10: each of the five sub-scores lies in 0..10, and total_score is
\* signature + dependency + observable + implementation - documentation.
C10_SubScoresAndTotal ==
    Analysed =>
        LET score == metrics[1].test_scoring
        IN  /\ score.signature_score \in 0..10
            /\ score.dependency_score \in 0..10
            /\ score.observable_score \in 0..10
            /\ score.implementation_score \in 0..10
            /\ score.documentation_score \in 0..10
            /\ score.total_score =
                   score.signature_score + score.dependency_score + score.observable_score
                     + score.implementation_score - score.documentation_score

\* A function whose documentation outweighs everything else: the tags of
\* its comment add up to more than 10, and its total is below 0.
C10_NegativeTotal ==
    /\ Analysed
    /\ documentation_uncapped(ast, FunctionOf(1)) > 10
    /\ metrics[1].test_scoring.documentation_score = 10
    /\ metrics[1].test_scoring.total_score < 0

----------------------------------------------------------------------------
(* SpecImplementation: map_cyclomatic_to_implementation_score is called    *)
(* on the cyclomatic complexities of functions; calculate_mccabe_complexity*)
(* starts at 1, so no call passes 0.                                       *)

\* Largest cyclomatic complexity passed, and most calls in one behaviour.
MaxCyclomatic == 25
MaxCalls == 2

call_implementation_score ==
    /\ Len(arg) < MaxCalls
    /\ \E cyclomatic \in 1..MaxCyclomatic :
         /\ arg' = Append(arg, cyclomatic)
         /\ returned' = Append(returned, map_cyclomatic_to_implementation_score(cyclomatic))
    /\ UNCHANGED <<analyzerVars, detectorVars, toolPc>>
    /\ UNCHANGED astVars
    /\ UNCHANGED slocVars
    /\ UNCHANGED scanVars

InitImplementation ==
    /\ InitFile(Void, <<>>, "")
    /\ SlocInit
    /\ ToolIdle

NextImplementation == call_implementation_score

SpecImplementation == InitImplementation /\ [][NextImplementation]_vars

\* C11: the implementation score never falls as mccabe grows, never
\* exceeds 9, and maps 1..5 onto 0..2, 6..10 onto 3..5, 11..20 onto 6..8 and
\* everything from 21 on to 9.  The map never falling, the band 11..20 can
\* only reach 8 if its last member, 20, does.
C11_ImplementationBands ==
    \A i \in 1..Len(arg) :
        /\ arg[i] \in 1..5 => returned[i] \in 0..2
        /\ arg[i] \in 6..10 => returned[i] \in 3..5
        /\ arg[i] \in 11..20 => returned[i] \in 6..8
        /\ arg[i] >= 21 => returned[i] = 9
        /\ arg[i] \in {5, 10, 20} => returned[i] \in {2, 5, 8}
        /\ \A j \in 1..Len(arg) : arg[i] <= arg[j] => returned[i] <= returned[j]

----------------------------------------------------------------------------
(* Regular expressions, as the regex crate matches them: the leftmost      *)
(* match, each repetition taking as much as the rest of the pattern        *)
(* allows.  A pattern is a sequence of elements; the text matched by the   *)
(* elements marked `capture` is capture group 1.  Positions count from 1.  *)

Lit(text) == [kind |-> "lit", text |-> text, capture |-> FALSE]
Many(class, min) == [kind |-> "many", class |-> class, min |-> min, capture |-> FALSE]
Opt(text) == [kind |-> "opt", text |-> text, capture |-> FALSE]
OneOf(chars) == [kind |-> "one", chars |-> chars, capture |-> FALSE]
WordBoundary == [kind |-> "boundary", capture |-> FALSE]
Group(element) == [element EXCEPT !.capture = TRUE]

Digits == {"0", "1", "2", "3", "4", "5", "6", "7", "8", "9"}
HexDigits ==
    Digits \cup {"a", "b", "c", "d", "e", "f", "A", "B", "C", "D", "E", "F"}
Letters ==
    {"a", "b", "c", "d", "e", "f", "g", "h", "i", "j", "k", "l", "m", "n", "o", "p", "q",
     "r", "s", "t", "u", "v", "w", "x", "y", "z", "A", "B", "C", "D", "E", "F", "G", "H",
     "I", "J", "K", "L", "M", "N", "O", "P", "Q", "R", "S", "T", "U", "V", "W", "X", "Y",
     "Z"}

\* \s, \w, \d and [0-9a-fA-F].
InClass(c, class) ==
    CASE class = "s" -> c \in {" ", "\n", "\t"}
      [] class = "w" -> c \in Letters \cup Digits \cup {"_"}
      [] class = "d" -> c \in Digits
      [] OTHER -> c \in HexDigits

CharAt(text, pos) == SubSeq(text, pos, pos)

IsWordAt(text, pos) ==
    pos >= 1 /\ pos <= Len(text) /\ InClass(CharAt(text, pos), "w")

\* How many characters of `class` stand at pos and after it.
RECURSIVE RunLength(_, _, _)
RunLength(text, pos, class) ==
    IF pos <= Len(text) /\ InClass(CharAt(text, pos), class)
    THEN 1 + RunLength(text, pos + 1, class)
    ELSE 0

NoMatch == [ok |-> FALSE, end |-> 0, cap |-> ""]

\* The match of pattern[i..] at pos: where it ends and what it captured.
RECURSIVE MatchHere(_, _, _, _, _), MatchMany(_, _, _, _, _, _)
MatchHere(pattern, i, text, pos, cap) ==
    IF i > Len(pattern) THEN [ok |-> TRUE, end |-> pos, cap |-> cap]
    ELSE LET e == pattern[i]
             taken(n) == IF e.capture THEN cap \o SubSeq(text, pos, pos + n - 1) ELSE cap
         IN  CASE e.kind = "lit" ->
                      IF pos + Len(e.text) - 1 <= Len(text)
                         /\ SubSeq(text, pos, pos + Len(e.text) - 1) = e.text
                      THEN MatchHere(pattern, i + 1, text, pos + Len(e.text), taken(Len(e.text)))
                      ELSE NoMatch
               [] e.kind = "opt" ->
                      LET with == IF pos <= Len(text) /\ CharAt(text, pos) = e.text
                                  THEN MatchHere(pattern, i + 1, text, pos + 1, taken(1))
                                  ELSE NoMatch
                      IN  IF with.ok THEN with
                          ELSE MatchHere(pattern, i + 1, text, pos, cap)
               [] e.kind = "one" ->
                      IF pos <= Len(text) /\ CharAt(text, pos) \in e.chars
                      THEN MatchHere(pattern, i + 1, text, pos + 1, taken(1))
                      ELSE NoMatch
               [] e.kind = "boundary" ->
                      IF IsWordAt(text, pos - 1) # IsWordAt(text, pos)
                      THEN MatchHere(pattern, i + 1, text, pos, cap)
                      ELSE NoMatch
               [] OTHER ->
                      MatchMany(pattern, i, text, pos, cap, RunLength(text, pos, e.class))

MatchMany(pattern, i, text, pos, cap, n) ==
    IF n < pattern[i].min THEN NoMatch
    ELSE LET e == pattern[i]
             rest == MatchHere(pattern, i + 1, text, pos + n,
                               IF e.capture THEN cap \o SubSeq(text, pos, pos + n - 1) ELSE cap)
         IN  IF rest.ok THEN rest
             ELSE MatchMany(pattern, i, text, pos, cap, n - 1)

\* Regex::captures_iter: group 1 of every match, the matches not overlapping.
RECURSIVE captures_from(_, _, _)
captures_from(pattern, text, start) ==
    IF start > Len(text) + 1 THEN <<>>
    ELSE LET found == MatchHere(pattern, 1, text, start, "")
         IN  IF found.ok
             THEN <<found.cap>>
                    \o captures_from(pattern, text, IF found.end > start THEN found.end ELSE start + 1)
             ELSE captures_from(pattern, text, start + 1)

captures_iter(pattern, text) == captures_from(pattern, text, 1)

----------------------------------------------------------------------------
(* Signed integers of the detector.  The model's integers are 32 bits      *)
(* wide, so i64 stands at that width: i64_MAX and i64_MIN are the limits   *)
(* at which parse fails and the saturating operations stop.                *)

i64_MAX == 2147483647
i64_MIN == -i64_MAX - 1

saturating_add(a, b) == IF a > i64_MAX - b THEN i64_MAX ELSE a + b
saturating_sub(a, b) == IF a < i64_MIN + b THEN i64_MIN ELSE a - b

DigitValue(c) ==
    CASE c = "0" -> 0 [] c = "1" -> 1 [] c = "2" -> 2 [] c = "3" -> 3 [] c = "4" -> 4
      [] c = "5" -> 5 [] c = "6" -> 6 [] c = "7" -> 7 [] c = "8" -> 8 [] c = "9" -> 9
      [] c \in {"a", "A"} -> 10 [] c \in {"b", "B"} -> 11 [] c \in {"c", "C"} -> 12
      [] c \in {"d", "D"} -> 13 [] c \in {"e", "E"} -> 14 [] OTHER -> 15

\* The digits of text from pos on, added to acc in `radix`; Nothing when
\* the value leaves the range of i64.  A negative number is built downward.
RECURSIVE parse_digits(_, _, _, _, _)
parse_digits(text, pos, acc, negative, radix) ==
    IF pos > Len(text) THEN Some(acc)
    ELSE LET d == DigitValue(CharAt(text, pos))
         IN  IF negative
             THEN IF acc < (i64_MIN + d + radix - 1) \div radix THEN Nothing
                  ELSE parse_digits(text, pos + 1, acc * radix - d, negative, radix)
             ELSE IF acc > (i64_MAX - d) \div radix THEN Nothing
                  ELSE parse_digits(text, pos + 1, acc * radix + d, negative, radix)

\* str::parse::<i64> on a string of digits with an optional sign.
parse_i64(text) ==
    IF Len(text) >= 1 /\ CharAt(text, 1) = "-"
    THEN IF Len(text) = 1 THEN Nothing ELSE parse_digits(text, 2, 0, TRUE, 10)
    ELSE IF text = "" THEN Nothing ELSE parse_digits(text, 1, 0, FALSE, 10)

\* i64::from_str_radix(digits, 16).
from_str_radix_16(digits) ==
    IF digits = "" THEN Nothing ELSE parse_digits(digits, 1, 0, FALSE, 16)

----------------------------------------------------------------------------
(* boundary.rs: BoundaryValue and BoundaryDetector.                        *)

BoundaryValue(variable_name, type_name, min_value, max_value) ==
    [variable_name |-> variable_name, type_name |-> type_name,
     min_value |-> min_value, max_value |-> max_value]

\* BoundaryValue::boundary_values.  boundary_values_ascending is the
\* reading that lists the four values in increasing order.
boundary_values_ascending(self) ==
    <<saturating_sub(self.min_value, 1), self.min_value,
      self.max_value, saturating_add(self.max_value, 1)>>
boundary_values(self) ==
    <<self.min_value, saturating_sub(self.min_value, 1),
      self.max_value, saturating_add(self.max_value, 1)>>

\* type_patterns, without its two 32-bit rows: the limits of uint32_t do
\* not fit the model's integers and those of int32_t would be its i64 limits.
type_patterns ==
    <<[type_name |-> "uint8_t", min_val |-> 0, max_val |-> 255],
      [type_name |-> "uint16_t", min_val |-> 0, max_val |-> 65535],
      [type_name |-> "int8_t", min_val |-> -128, max_val |-> 127],
      [type_name |-> "int16_t", min_val |-> -32768, max_val |-> 32767]>>

\* \b<type>\s+(\w+)\s*[;=,]
type_regex(type_name) ==
    <<WordBoundary, Lit(type_name), Many("s", 1), Group(Many("w", 1)), Many("s", 0),
      OneOf({";", "=", ","})>>

\* The boundaries one row of type_patterns adds, for the names captured.
RECURSIVE typed_boundaries(_, _)
typed_boundaries(row, names) ==
    IF names = <<>> THEN <<>>
    ELSE (IF starts_with(Head(names), "MAX_") \/ starts_with(Head(names), "MIN_")
          THEN <<>>
          ELSE <<BoundaryValue(Head(names), row.type_name, row.min_val, row.max_val)>>)
         \o typed_boundaries(row, Tail(names))

RECURSIVE detect_integer_types_from(_, _)
detect_integer_types_from(source, i) ==
    IF i > Len(type_patterns) THEN <<>>
    ELSE typed_boundaries(type_patterns[i],
                          captures_iter(type_regex(type_patterns[i].type_name), source))
         \o detect_integer_types_from(source, i + 1)

\* detect_integer_types: what it pushes onto self.boundaries.
detect_integer_types(source) == detect_integer_types_from(source, 1)

\* The patterns of detect_range_checks, in its order.
CompareLeft(operator) ==
    <<Lit("if"), Many("s", 0), Lit("("), Many("s", 0), Many("w", 1), Many("s", 0),
      Lit(operator), Opt("="), Many("s", 0), Group(Many("d", 1))>>
CompareRight(operator) ==
    <<Lit("if"), Many("s", 0), Lit("("), Many("s", 0), Group(Many("d", 1)), Many("s", 0),
      Lit(operator), Opt("="), Many("s", 0), Many("w", 1)>>
Define(word) ==
    <<Lit("#define"), Many("s", 1), Many("w", 0), Lit(word), Many("w", 0), Many("s", 1),
      Group(Many("d", 1))>>

range_patterns ==
    <<[regex |-> CompareLeft(">"), boundary_type |-> "range_check_upper"],
      [regex |-> CompareLeft("<"), boundary_type |-> "range_check_lower"],
      [regex |-> CompareRight("<"), boundary_type |-> "range_check_lower"],
      [regex |-> CompareRight(">"), boundary_type |-> "range_check_upper"],
      [regex |-> Define("MAX"), boundary_type |-> "constant_max"],
      [regex |-> Define("MIN"), boundary_type |-> "constant_min"]>>

\* The (min_val, max_val) pair of a range check on `value`.
\* range_pair_around is the reading that brackets the constant on both sides.
range_pair_around(boundary_type, value) ==
    <<saturating_sub(value, 1), saturating_add(value, 1)>>
range_pair(boundary_type, value) ==
    IF contains(boundary_type, "upper") \/ contains(boundary_type, "max")
    THEN <<saturating_sub(value, 1), value>>
    ELSE <<value, saturating_add(value, 1)>>

RECURSIVE ranged_boundaries(_, _)
ranged_boundaries(boundary_type, constants) ==
    IF constants = <<>> THEN <<>>
    ELSE LET value == parse_i64(Head(constants))
         IN  (IF value = Nothing THEN <<>>
              ELSE LET pair == range_pair(boundary_type, value[1])
                   IN  <<BoundaryValue("constant_" \o ToString(value[1]), boundary_type,
                                       pair[1], pair[2])>>)
             \o ranged_boundaries(boundary_type, Tail(constants))

RECURSIVE detect_range_checks_from(_, _)
detect_range_checks_from(source, i) ==
    IF i > Len(range_patterns) THEN <<>>
    ELSE ranged_boundaries(range_patterns[i].boundary_type,
                           captures_iter(range_patterns[i].regex, source))
         \o detect_range_checks_from(source, i + 1)

\* detect_range_checks: what it pushes onto self.boundaries.
detect_range_checks(source) == detect_range_checks_from(source, 1)

\* detect_boundaries on a file whose content is `file` (Nothing: the read
\* fails): the detector's boundaries afterwards, or Nothing for the error.
detect_boundaries(self, file) ==
    IF file = Nothing THEN Nothing
    ELSE Some(self \o detect_integer_types(file[1]) \o detect_range_checks(file[1]))

\* (-?\d+)\b  and  \b(0[xX][0-9a-fA-F]+)\b
number_re == <<Group(Opt("-")), Group(Many("d", 1)), WordBoundary>>
hex_re ==
    <<WordBoundary, Group(Lit("0")), Group(OneOf({"x", "X"})), Group(Many("h", 1)),
      WordBoundary>>

RECURSIVE parsed_values(_, _)
parsed_values(texts, hex) ==
    IF texts = <<>> THEN {}
    ELSE LET t == Head(texts)
             value == IF hex THEN from_str_radix_16(SubSeq(t, 3, Len(t))) ELSE parse_i64(t)
         IN  (IF value = Nothing THEN {} ELSE {value[1]}) \cup parsed_values(Tail(texts), hex)

\* found_values: the numbers of the test file, decimal and hexadecimal.
found_values(test_content) ==
    parsed_values(captures_iter(number_re, test_content), FALSE)
        \cup parsed_values(captures_iter(hex_re, test_content), TRUE)

\* required_count and found_count of one boundary.  required_count_distinct
\* is the reading that counts a value required twice only once.
required_count_distinct(boundary_vals) ==
    Cardinality({boundary_vals[i] : i \in 1..Len(boundary_vals)})
required_count(boundary_vals) == Len(boundary_vals)
found_count(boundary_vals, found) == Len(SelectSeq(boundary_vals, LAMBDA v : v \in found))

RECURSIVE join_values(_)
join_values(values) ==
    IF values = <<>> THEN ""
    ELSE IF Len(values) = 1 THEN ToString(values[1])
    ELSE ToString(values[1]) \o ", " \o join_values(Tail(values))

missing_values(boundary, found) ==
    SelectSeq(boundary_values(boundary), LAMBDA v : v \notin found)

RECURSIVE missing_lines(_, _)
missing_lines(bs, found) ==
    IF bs = <<>> THEN <<>>
    ELSE LET missing_vals == missing_values(Head(bs), found)
         IN  (IF found_count(boundary_values(Head(bs)), found)
                       >= required_count(boundary_values(Head(bs)))
              THEN <<>>
              ELSE <<Head(bs).variable_name \o " (" \o Head(bs).type_name
                     \o "): missing values [" \o join_values(missing_vals) \o "]">>)
             \o missing_lines(Tail(bs), found)

RECURSIVE total_required_in(_)
total_required_in(bs) ==
    IF bs = <<>> THEN 0
    ELSE required_count(boundary_values(Head(bs))) + total_required_in(Tail(bs))

RECURSIVE total_found_in(_, _)
total_found_in(bs, found) ==
    IF bs = <<>> THEN 0
    ELSE found_count(boundary_values(Head(bs)), found) + total_found_in(Tail(bs), found)

\* (total_found / total_required) * 100.0, kept as the fraction num/den;
\* 100 when nothing is required.
\* coverage_percent_or_zero is the reading that gives 0 when nothing is required.
coverage_percent_or_zero(total_found, total_required) ==
    IF total_required > 0 THEN [num |-> total_found * 100, den |-> total_required]
    ELSE [num |-> 0, den |-> 1]
coverage_percent_of(total_found, total_required) ==
    IF total_required > 0 THEN [num |-> total_found * 100, den |-> total_required]
    ELSE [num |-> 100, den |-> 1]

\* analyze_test_coverage on a test file whose content is `file`: the
\* BoundaryAnalysis, or Nothing when the read fails.
analyze_test_coverage(self, file) ==
    IF file = Nothing THEN Nothing
    ELSE LET found == found_values(file[1])
         IN  Some([required_boundaries |-> self,
                   found_test_values |-> found,
                   coverage_percent |-> coverage_percent_of(total_found_in(self, found),
                                                            total_required_in(self)),
                   missing_boundaries |-> missing_lines(self, found)])

----------------------------------------------------------------------------
(* The detector on its own: boundary_values as a function, and a run of    *)
(* analyze_boundaries in its two steps over files written line by line.    *)

BoundaryLimits == {i64_MIN, i64_MIN + 1, 0, 255, i64_MAX - 1, i64_MAX}

call_boundary_values ==
    /\ Len(arg) < MaxCalls
    /\ \E lo \in BoundaryLimits, hi \in BoundaryLimits :
         LET self == BoundaryValue("value", "int64_t", lo, hi)
         IN  /\ arg' = Append(arg, self)
             /\ returned' = Append(returned, boundary_values(self))
    /\ UNCHANGED <<analyzerVars, detectorVars, toolPc>>
    /\ UNCHANGED astVars
    /\ UNCHANGED slocVars
    /\ UNCHANGED scanVars

InitBoundaryValues == InitFile(Void, <<>>, "") /\ SlocInit /\ ToolIdle
NextBoundaryValues == call_boundary_values
SpecBoundaryValues == InitBoundaryValues /\ [][NextBoundaryValues]_vars

\* C18: boundary_values returns exactly [lo, lo-1, hi, hi+1] in that order,
\* lo-1 and hi+1 stopping at the limits of the integer type, duplicates kept.
C18_BoundaryValues ==
    \A i \in 1..Len(arg) :
        LET lo == arg[i].min_value
            hi == arg[i].max_value
        IN  returned[i] = <<lo, IF lo = i64_MIN THEN i64_MIN ELSE lo - 1,
                            hi, IF hi = i64_MAX THEN i64_MAX ELSE hi + 1>>

C18_AtBothLimits ==
    \E i \in 1..Len(arg) :
        /\ arg[i].min_value = i64_MIN
        /\ arg[i].max_value = i64_MAX
        /\ returned[i] = <<i64_MIN, i64_MIN, i64_MAX, i64_MAX>>

MaxSourceLines == 2
MaxTestLines == 1

SourceLines ==
    {"uint8_t counter;", "if (x > 100)", "if (0 < x)", "if (255 >= x)", "if (x < 2147483647)",
     "if (x > 99999999999)", "#define MAX_LEN 255", "#define MIN_LEN 1"}
TestLines == {"0, 255, -1, 256", "f(100); g(0xFF);"}

LineCount(text) == Len(captures_iter(<<Group(Lit("\n"))>>, text))

WriteSource ==
    /\ toolPc = "idle"
    /\ LineCount(source_code[1]) < MaxSourceLines
    /\ \E l \in SourceLines : source_code' = Some(source_code[1] \o l \o "\n")
    /\ UNCHANGED <<analyzerVars, test_code, boundaries, coverage, toolPc, callVars>>
    /\ UNCHANGED astVars
    /\ UNCHANGED slocVars
    /\ UNCHANGED scanVars

WriteTest ==
    /\ toolPc = "idle"
    /\ LineCount(test_code[1]) < MaxTestLines
    /\ \E l \in TestLines : test_code' = Some(test_code[1] \o l \o "\n")
    /\ UNCHANGED <<analyzerVars, source_code, boundaries, coverage, toolPc, callVars>>
    /\ UNCHANGED astVars
    /\ UNCHANGED slocVars
    /\ UNCHANGED scanVars

\* detector.detect_boundaries(source_file) on a new detector.
DetectBoundaries ==
    /\ toolPc = "idle"
    /\ boundaries' = detect_boundaries(<<>>, source_code)[1]
    /\ toolPc' = "detected"
    /\ UNCHANGED <<analyzerVars, source_code, test_code, coverage, callVars>>
    /\ UNCHANGED astVars
    /\ UNCHANGED slocVars
    /\ UNCHANGED scanVars

\* detector.analyze_test_coverage(test_file).
AnalyzeTestCoverage ==
    /\ toolPc = "detected"
    /\ coverage' = analyze_test_coverage(boundaries, test_code)
    /\ toolPc' = "covered"
    /\ UNCHANGED <<analyzerVars, source_code, test_code, boundaries, callVars>>
    /\ UNCHANGED astVars
    /\ UNCHANGED slocVars
    /\ UNCHANGED scanVars

InitDetect ==
    /\ InitFile(Void, <<>>, "") /\ SlocInit
    /\ ScanIdle
    /\ AnalyzerIdle
    /\ source_code = Some("") /\ test_code = Some("")
    /\ boundaries = <<>> /\ coverage = Nothing
    /\ toolPc = "idle" /\ arg = <<>> /\ returned = <<>>
NextDetect == WriteSource \/ WriteTest \/ DetectBoundaries \/ AnalyzeTestCoverage
SpecDetect == InitDetect /\ [][NextDetect]_vars

\* The four values a boundary requires, as the specification lists them.
Required(b) ==
    <<b.min_value, IF b.min_value = i64_MIN THEN i64_MIN ELSE b.min_value - 1,
      b.max_value, IF b.max_value = i64_MAX THEN i64_MAX ELSE b.max_value + 1>>

\* C19: the coverage is one ratio over all boundaries: with N boundaries the
\* denominator is 4*N whatever values coincide, the numerator counts, boundary
\* by boundary, the required values among the literals of the test file, and
\* with no boundary the coverage is 100; one uint8_t variable tested with
\* 0, 255, -1 and 256 is covered to 100.
C19_CoverageRatio ==
    coverage # Nothing =>
        LET analysis == coverage[1]
            N == Len(boundaries)
            hits == {p \in (1..N) \X (1..4) :
                        Required(boundaries[p[1]])[p[2]] \in analysis.found_test_values}
        IN  /\ analysis.required_boundaries = boundaries
            /\ N = 0 => analysis.coverage_percent.num = 100 * analysis.coverage_percent.den
            /\ N > 0 => /\ analysis.coverage_percent.den = 4 * N
                        /\ analysis.coverage_percent.num = 100 * Cardinality(hits)
            /\ (source_code = Some("uint8_t counter;\n") /\ test_code = Some("0, 255, -1, 256\n"))
                   => /\ N = 1
                      /\ analysis.found_test_values = {0, 255, -1, 256}
                      /\ analysis.coverage_percent.num = 100 * analysis.coverage_percent.den

C19_Uint8Covered ==
    /\ source_code = Some("uint8_t counter;\n")
    /\ test_code = Some("0, 255, -1, 256\n")
    /\ coverage # Nothing
    /\ coverage[1].coverage_percent = [num |-> 400, den |-> 4]

\* The constants a pattern of detect_range_checks matches in the source file.
Matched(i) ==
    LET constants == captures_iter(range_patterns[i].regex, source_code[1])
    IN  {parse_i64(constants[k])[1] :
            k \in {j \in 1..Len(constants) : parse_i64(constants[j]) # Nothing}}

UpperPatterns == {1, 4, 5}
LowerPatterns == {2, 3, 6}

\* C20: every upper match of a value v (x > v, x >= v, v > x, v >= x,
\* #define ..MAX.. v) adds a boundary with the range (v-1, v), every lower
\* match (x < v, x <= v, v < x, v <= x, #define ..MIN.. v) one with the range
\* (v, v+1), the arithmetic stopping at the limits, and every boundary the
\* detector holds has min_value <= max_value.
C20_RangeChecks ==
    /\ \A k \in 1..Len(boundaries) : boundaries[k].min_value <= boundaries[k].max_value
    /\ toolPc # "idle" =>
         /\ \A i \in UpperPatterns : \A v \in Matched(i) :
                \E k \in 1..Len(boundaries) :
                    /\ boundaries[k].type_name = range_patterns[i].boundary_type
                    /\ boundaries[k].max_value = v
                    /\ boundaries[k].min_value = IF v = i64_MIN THEN i64_MIN ELSE v - 1
         /\ \A i \in LowerPatterns : \A v \in Matched(i) :
                \E k \in 1..Len(boundaries) :
                    /\ boundaries[k].type_name = range_patterns[i].boundary_type
                    /\ boundaries[k].min_value = v
                    /\ boundaries[k].max_value = IF v = i64_MAX THEN i64_MAX ELSE v + 1
         /\ \A k \in 1..Len(boundaries) :
                LET b == boundaries[k]
                IN  \/ \E row \in 1..Len(type_patterns) :
                          b.type_name = type_patterns[row].type_name
                    \/ \E i \in UpperPatterns :
                          /\ b.type_name = range_patterns[i].boundary_type
                          /\ b.max_value \in Matched(i)
                    \/ \E i \in LowerPatterns :
                          /\ b.type_name = range_patterns[i].boundary_type
                          /\ b.min_value \in Matched(i)

C20_UpperAndSaturatedLower ==
    /\ toolPc # "idle"
    /\ \E k \in 1..Len(boundaries) :
          /\ boundaries[k].type_name = "range_check_upper"
          /\ boundaries[k].min_value = 99 /\ boundaries[k].max_value = 100
    /\ \E k \in 1..Len(boundaries) :
          /\ boundaries[k].type_name = "range_check_lower"
          /\ boundaries[k].min_value = i64_MAX /\ boundaries[k].max_value = i64_MAX

----------------------------------------------------------------------------
(* analyzer.rs: FileAnalysis, TestQualityAnalyzer and AnalysisResult.      *)
(* A threshold is kept in hundredths and a ratio as the fraction num/den,  *)
(* so that `ratio >= threshold` is decided exactly; for thresholds of two  *)
(* decimals and totals of this size the f64 comparison decides the same.   *)

\* The f64 that is not a number (`--threshold NaN` parses to it): a value
\* outside the hundredths a threshold can hold, and every comparison with it
\* is false.
NaN == -1000000

FunctionMetrics(function_name, cyclomatic_complexity, cognitive_complexity, line_start, line_end) ==
    [function_name |-> function_name,
     cyclomatic_complexity |-> cyclomatic_complexity,
     cognitive_complexity |-> cognitive_complexity,
     line_start |-> line_start, line_end |-> line_end]

FileAnalysis_new(file_path) ==
    [file_path |-> file_path, functions |-> <<>>,
     total_cyclomatic_complexity |-> 0, total_cognitive_complexity |-> 0]

\* FileAnalysis::add_function.  add_function_first is the reading that
\* lists the newest function first.
add_function_first(self, function) ==
    [self EXCEPT !.total_cyclomatic_complexity = @ + function.cyclomatic_complexity,
                 !.total_cognitive_complexity = @ + function.cognitive_complexity,
                 !.functions = <<function>> \o @]
add_function(self, function) ==
    [self EXCEPT !.total_cyclomatic_complexity = @ + function.cyclomatic_complexity,
                 !.total_cognitive_complexity = @ + function.cognitive_complexity,
                 !.functions = Append(@, function)]

\* test / source as f64, or 1.0 when the source total is 0.
ratio_of(test_total, source_total) ==
    IF source_total > 0 THEN [num |-> test_total, den |-> source_total]
    ELSE [num |-> 1, den |-> 1]

\* cyclomatic_ratio >= self.threshold.  above_threshold is the reading in
\* which a tie fails.
above_threshold(ratio, hundredths) ==
    hundredths # NaN /\ ratio.num * 100 > hundredths * ratio.den
meets_threshold(ratio, hundredths) ==
    hundredths # NaN /\ ratio.num * 100 >= hundredths * ratio.den

\* analysis.coverage_percent < self.boundary_threshold * 100.0.
\* coverage_not_above is the reading in which coverage at the threshold fails.
coverage_not_above(coverage_percent, hundredths) ==
    hundredths # NaN /\ coverage_percent.num <= hundredths * coverage_percent.den
coverage_below(coverage_percent, hundredths) ==
    hundredths # NaN /\ coverage_percent.num < hundredths * coverage_percent.den

\* TestQualityAnalyzer::analyze_boundaries on the two files' contents.
analyze_boundaries(source_file, test_file) ==
    LET detected == detect_boundaries(<<>>, source_file)
    IN  IF detected = Nothing THEN Nothing
        ELSE analyze_test_coverage(detected[1], test_file)

\* `passed` after the match on analyze_boundaries() (outcome: Nothing for
\* Err).  failure_fails is the reading in which a failed detection fails
\* the analysis.
failure_fails(passed, outcome, hundredths) ==
    IF outcome = Nothing THEN FALSE
    ELSE passed /\ ~coverage_below(outcome[1].coverage_percent, hundredths)
passed_after_boundaries(passed, outcome, hundredths) ==
    IF outcome = Nothing THEN passed
    ELSE passed /\ ~coverage_below(outcome[1].coverage_percent, hundredths)

\* (total as f64 * threshold) as u32.
target_of(total, hundredths) == (total * hundredths) \div 100

\* u32::saturating_sub.
u32_saturating_sub(a, b) == IF a < b THEN 0 ELSE a - b

avg_missing(self) ==
    LET missing_cyclomatic ==
            u32_saturating_sub(target_of(self.source_analysis.total_cyclomatic_complexity,
                                         self.threshold),
                               self.test_analysis.total_cyclomatic_complexity)
        missing_cognitive ==
            u32_saturating_sub(target_of(self.source_analysis.total_cognitive_complexity,
                                         self.threshold),
                               self.test_analysis.total_cognitive_complexity)
    IN  (missing_cyclomatic + missing_cognitive) \div 2

\* The first line of the recommendations.  Its parenthesis, "(gap_percent
\* percentage points below threshold)", is left out: the truncation of
\* (threshold - ratio) * 100.0 depends on the rounding of f64.
PointsLine(points) == "Add ~" \o ToString(points) \o " more complexity points to tests"

Hints ==
    <<"Consider adding:",
      "  - Edge case tests (boundary values, overflow scenarios)",
      "  - Error path tests (invalid inputs, error conditions)",
      "  - State transition tests (different initial conditions)",
      "  - Parametrized tests or loops in test code">>

\* sort_by_key(Reverse(cyclomatic_complexity)): stable, highest first.
RECURSIVE insert_by_complexity(_, _)
insert_by_complexity(sorted, f) ==
    IF sorted = <<>> THEN <<f>>
    ELSE IF Head(sorted).cyclomatic_complexity >= f.cyclomatic_complexity
         THEN <<Head(sorted)>> \o insert_by_complexity(Tail(sorted), f)
         ELSE <<f>> \o sorted

RECURSIVE sort_by_complexity(_)
sort_by_complexity(fs) ==
    IF fs = <<>> THEN <<>>
    ELSE insert_by_complexity(sort_by_complexity(SubSeq(fs, 1, Len(fs) - 1)), fs[Len(fs)])

take(items, n) == SubSeq(items, 1, Min(n, Len(items)))

RECURSIVE function_lines(_)
function_lines(fs) ==
    IF fs = <<>> THEN <<>>
    ELSE <<"  - " \o Head(fs).function_name \o "() [complexity: "
           \o ToString(Head(fs).cyclomatic_complexity) \o "] at lines "
           \o ToString(Head(fs).line_start) \o "-" \o ToString(Head(fs).line_end)>>
         \o function_lines(Tail(fs))

RECURSIVE numbered_lines(_, _)
numbered_lines(items, i) ==
    IF items = <<>> THEN <<>>
    ELSE <<"  " \o ToString(i) \o ". " \o Head(items)>> \o numbered_lines(Tail(items), i + 1)

\* cyclomatic_ratio < self.threshold, the guard of the complexity lines.
\* any_failure is the reading that gives them to every failed result.
any_failure(cyclomatic_ratio, hundredths) == TRUE
complexity_failed(cyclomatic_ratio, hundredths) ==
    hundredths # NaN /\ cyclomatic_ratio.num * 100 < hundredths * cyclomatic_ratio.den

\* generate_recommendations: the lines it pushes.
generate_recommendations(self, cyclomatic_ratio, boundary_analysis) ==
    LET high_complexity_funcs ==
            sort_by_complexity(SelectSeq(self.source_analysis.functions,
                                         LAMBDA f : f.cyclomatic_complexity > 5))
    IN  (IF complexity_failed(cyclomatic_ratio, self.threshold)
         THEN <<PointsLine(avg_missing(self))>> \o Hints
         ELSE <<>>)
        \o (IF high_complexity_funcs # <<>>
            THEN <<"\nComplex functions needing thorough tests:">>
                 \o function_lines(take(high_complexity_funcs, 5))
            ELSE <<>>)
        \o (IF boundary_analysis # Nothing
               /\ coverage_below(boundary_analysis[1].coverage_percent, 80)
               /\ boundary_analysis[1].missing_boundaries # <<>>
            THEN <<"\nMissing boundary value tests:">>
                 \o numbered_lines(take(boundary_analysis[1].missing_boundaries, 5), 1)
                 \o (IF Len(boundary_analysis[1].missing_boundaries) > 5
                     THEN <<"  ... and "
                            \o ToString(Len(boundary_analysis[1].missing_boundaries) - 5)
                            \o " more">>
                     ELSE <<>>)
            ELSE <<>>)

\* TestQualityAnalyzer::analyze; source_file and test_file are the contents
\* analyze_boundaries reads (Nothing: not readable as UTF-8 text).
analyze(self, check_boundaries, source_file, test_file) ==
    LET test_cyclomatic == self.test_analysis.total_cyclomatic_complexity
        source_cyclomatic == self.source_analysis.total_cyclomatic_complexity
        test_cognitive == self.test_analysis.total_cognitive_complexity
        source_cognitive == self.source_analysis.total_cognitive_complexity
        cyclomatic_ratio == ratio_of(test_cyclomatic, source_cyclomatic)
        cognitive_ratio == ratio_of(test_cognitive, source_cognitive)
        boundary_analysis ==
            IF check_boundaries THEN analyze_boundaries(source_file, test_file) ELSE Nothing
        passed ==
            IF check_boundaries
            THEN passed_after_boundaries(meets_threshold(cyclomatic_ratio, self.threshold),
                                         boundary_analysis, self.boundary_threshold)
            ELSE meets_threshold(cyclomatic_ratio, self.threshold)
    IN  [passed |-> passed,
         test_cyclomatic_complexity |-> test_cyclomatic,
         source_cyclomatic_complexity |-> source_cyclomatic,
         test_cognitive_complexity |-> test_cognitive,
         source_cognitive_complexity |-> source_cognitive,
         cyclomatic_ratio |-> cyclomatic_ratio,
         cognitive_ratio |-> cognitive_ratio,
         threshold |-> self.threshold,
         boundary_threshold |-> self.boundary_threshold,
         test_function_count |-> Len(self.test_analysis.functions),
         source_function_count |-> Len(self.source_analysis.functions),
         recommendations |-> IF ~passed
                             THEN generate_recommendations(self, cyclomatic_ratio,
                                                           boundary_analysis)
                             ELSE <<>>,
         test_file |-> self.test_analysis.file_path,
         source_file |-> self.source_analysis.file_path,
         boundary_analysis |-> boundary_analysis]

\* The analyzer held in the state.
Analyzer ==
    [test_analysis |-> test_analysis[1], source_analysis |-> source_analysis[1],
     threshold |-> threshold, boundary_threshold |-> boundary_threshold]

----------------------------------------------------------------------------
(* The comparison without the boundary check: TestQualityAnalyzer::new     *)
(* analyses the test file, then the source file, function by function,     *)
(* and analyze(false) compares the totals.                                 *)

MaxFunctions == 2

\* (cyclomatic, cognitive) of the functions a file may hold.
MetricChoices == {<<1, 0>>, <<2, 10>>, <<5, 5>>, <<6, 5>>, <<7, 5>>}
Thresholds == {70, 100}

\* analyze_file up to its loop: the file is read and parsed.
NewFileAnalysis ==
    /\ \/ /\ toolPc = "idle"
          /\ test_analysis' = Some(FileAnalysis_new("test.c"))
          /\ toolPc' = "test"
          /\ UNCHANGED source_analysis
       \/ /\ toolPc = "test"
          /\ source_analysis' = Some(FileAnalysis_new("source.c"))
          /\ toolPc' = "source"
          /\ UNCHANGED test_analysis
    /\ UNCHANGED <<threshold, boundary_threshold, result, detectorVars, callVars>>
    /\ UNCHANGED astVars
    /\ UNCHANGED slocVars
    /\ UNCHANGED scanVars

\* One turn of the loop of analyze_file: the next function of the file.
AddFunction ==
    /\ toolPc \in {"test", "source"}
    /\ LET self == IF toolPc = "test" THEN test_analysis[1] ELSE source_analysis[1]
           n == Len(self.functions) + 1
       IN  /\ n <= MaxFunctions
           /\ \E m \in MetricChoices :
                LET function == FunctionMetrics("f" \o ToString(n), m[1], m[2],
                                                10 * n, 10 * n + m[1])
                IN  /\ IF toolPc = "test"
                       THEN /\ test_analysis' = Some(add_function(self, function))
                            /\ UNCHANGED source_analysis
                       ELSE /\ source_analysis' = Some(add_function(self, function))
                            /\ UNCHANGED test_analysis
                    /\ arg' = Append(arg, [file |-> self.file_path, function |-> function])
    /\ UNCHANGED <<threshold, boundary_threshold, result, detectorVars, toolPc, returned>>
    /\ UNCHANGED astVars
    /\ UNCHANGED slocVars
    /\ UNCHANGED scanVars

\* analyzer.analyze(false).
AnalyzeComplexity ==
    /\ toolPc = "source"
    /\ result' = Some(analyze(Analyzer, FALSE, source_code, test_code))
    /\ toolPc' = "analyzed"
    /\ UNCHANGED <<test_analysis, source_analysis, threshold, boundary_threshold,
                   detectorVars, callVars>>
    /\ UNCHANGED astVars
    /\ UNCHANGED slocVars
    /\ UNCHANGED scanVars

InitCompare ==
    /\ InitFile(Void, <<>>, "") /\ SlocInit
    /\ ScanIdle
    /\ test_analysis = Nothing /\ source_analysis = Nothing
    /\ threshold \in Thresholds
    /\ boundary_threshold = 80
    /\ result = Nothing
    /\ source_code = Some("") /\ test_code = Some("")
    /\ boundaries = <<>> /\ coverage = Nothing
    /\ toolPc = "idle" /\ arg = <<>> /\ returned = <<>>
NextCompare == NewFileAnalysis \/ AddFunction \/ AnalyzeComplexity
SpecCompare == InitCompare /\ [][NextCompare]_vars

ClaimedPoints ==
    LET t == test_analysis[1]
        s == source_analysis[1]
        exact == (threshold * s.total_cyclomatic_complexity
                    - 100 * t.total_cyclomatic_complexity)
                 + (threshold * s.total_cognitive_complexity
                    - 100 * t.total_cognitive_complexity)
        whole == ((threshold * s.total_cyclomatic_complexity) \div 100
                    - t.total_cyclomatic_complexity)
                 + ((threshold * s.total_cognitive_complexity) \div 100
                    - t.total_cognitive_complexity)
    IN  {Max(0, x) : x \in {exact \div 200, -((-exact) \div 200),
                            whole \div 2, -((-whole) \div 2)}}

\* C16: the number of points suggested by a failed result is the mean of
\* (threshold * subject cyclomatic - test cyclomatic) and (threshold *
\* subject cognitive - test cognitive), no less than 0; (10, 10) against
\* (6, 5) at 0.70 gives 1.
C16_SuggestedPoints ==
    (toolPc = "analyzed" /\ ~result[1].passed) =>
        /\ result[1].recommendations # <<>>
        /\ \E p \in ClaimedPoints : result[1].recommendations[1] = PointsLine(p)

\* The functions handed to add_function for a file, in the order of the calls.
Added(file_path) ==
    LET calls == SelectSeq(arg, LAMBDA c : c.file = file_path)
    IN  [i \in 1..Len(calls) |-> calls[i].function]

RECURSIVE SumOver(_, _)
SumOver(fs, field) == IF fs = <<>> THEN 0 ELSE Head(fs)[field] + SumOver(Tail(fs), field)

TotalsAreSums(file) ==
    file # Nothing =>
        /\ file[1].total_cyclomatic_complexity = SumOver(file[1].functions, "cyclomatic_complexity")
        /\ file[1].total_cognitive_complexity = SumOver(file[1].functions, "cognitive_complexity")
        /\ file[1].functions = Added(file[1].file_path)

\* C17: after any sequence of add_function calls on a new FileAnalysis, each
\* total is the sum of that metric over `functions`, and `functions` holds
\* the records added, in the order of the calls.
C17_TotalsAreSums == TotalsAreSums(test_analysis) /\ TotalsAreSums(source_analysis)

C17_TwoFunctionsAdded ==
    /\ test_analysis # Nothing
    /\ Len(test_analysis[1].functions) = 2
    /\ test_analysis[1].functions[1].cyclomatic_complexity = 7
    /\ test_analysis[1].functions[2].cyclomatic_complexity = 2
    /\ test_analysis[1].total_cyclomatic_complexity = 9
    /\ test_analysis[1].total_cognitive_complexity = 15

----------------------------------------------------------------------------
(* The comparison with the boundary check.  The run starts when             *)
(* TestQualityAnalyzer::new has returned: both files were read as bytes and *)
(* analysed, so a file may still fail to be read as text by the detector.   *)

RECURSIVE FileAnalysisOf(_, _)
FileAnalysisOf(file_path, suite) ==
    IF suite = <<>> THEN FileAnalysis_new(file_path)
    ELSE LET n == Len(suite)
             m == suite[n]
         IN  add_function(FileAnalysisOf(file_path, SubSeq(suite, 1, n - 1)),
                          FunctionMetrics("f" \o ToString(n), m[1], m[2], 10 * n, 10 * n + m[1]))

TestSuites == {<<>>, << <<7, 5>> >>, << <<6, 5>> >>, << <<2, 10>> >>}
SourceSuites == {<<>>, << <<5, 5>>, <<5, 5>> >>, << <<6, 5>>, <<7, 5>> >>}
BoundaryThresholds == {75, 80}
SourceFiles ==
    {Nothing, Some("int x;\n"), Some("uint8_t counter;\n"),
     Some("uint8_t counter;\nif (x > 100)\n")}
TestFiles == {Nothing, Some("f(1);\n"), Some("0, 255, -1\n"), Some("0, 255, -1, 256\n")}

\* analyzer.analyze(true).
AnalyzeWithBoundaries ==
    /\ toolPc = "source"
    /\ result' = Some(analyze(Analyzer, TRUE, source_code, test_code))
    /\ toolPc' = "checked"
    /\ UNCHANGED <<test_analysis, source_analysis, threshold, boundary_threshold,
                   detectorVars, callVars>>
    /\ UNCHANGED astVars
    /\ UNCHANGED slocVars
    /\ UNCHANGED scanVars

InitBoundary ==
    /\ InitFile(Void, <<>>, "") /\ SlocInit
    /\ ScanIdle
    /\ \E suite \in TestSuites : test_analysis = Some(FileAnalysisOf("test.c", suite))
    /\ \E suite \in SourceSuites : source_analysis = Some(FileAnalysisOf("source.c", suite))
    /\ threshold \in Thresholds
    /\ boundary_threshold \in BoundaryThresholds
    /\ result = Nothing
    /\ source_code \in SourceFiles /\ test_code \in TestFiles
    /\ boundaries = <<>> /\ coverage = Nothing
    /\ toolPc = "source" /\ arg = <<>> /\ returned = <<>>
NextBoundary == AnalyzeComplexity \/ AnalyzeWithBoundaries
SpecBoundary == InitBoundary /\ [][NextBoundary]_vars

\* The verdict on the complexity alone.
ComplexityVerdict ==
    LET T == test_analysis[1].total_cyclomatic_complexity
        S == source_analysis[1].total_cyclomatic_complexity
    IN  IF S > 0 THEN T * 100 >= threshold * S ELSE 100 >= threshold

\* C13: with the boundary check on and the detection succeeding, passed
\* holds exactly when the ratio is at least the threshold and the coverage
\* is at least 100 * boundary_threshold.
C13_BothThresholds ==
    (toolPc = "checked" /\ result[1].boundary_analysis # Nothing) =>
        LET c == result[1].boundary_analysis[1].coverage_percent
        IN  /\ result[1].passed <=> (ComplexityVerdict /\ c.num >= boundary_threshold * c.den)
            /\ c.num < boundary_threshold * c.den => ~result[1].passed
            /\ ~ComplexityVerdict => ~result[1].passed

C13_CoverageFails ==
    /\ toolPc = "checked"
    /\ ComplexityVerdict
    /\ result[1].boundary_analysis # Nothing
    /\ result[1].boundary_analysis[1].coverage_percent = [num |-> 300, den |-> 4]
    /\ boundary_threshold = 80
    /\ ~result[1].passed

\* C14: when the detection fails, the result has no boundary analysis and
\* passed is the verdict on the complexity alone; the boundary analysis is
\* present exactly when the check was asked for and the detection succeeded.
C14_FailureIsIsolated ==
    /\ toolPc = "checked" =>
         /\ (source_code = Nothing \/ test_code = Nothing)
                => /\ result[1].boundary_analysis = Nothing
                   /\ result[1].passed <=> ComplexityVerdict
         /\ result[1].boundary_analysis # Nothing
                <=> (source_code # Nothing /\ test_code # Nothing)
    /\ toolPc = "analyzed" => result[1].boundary_analysis = Nothing

C14_UnreadableSourcePasses ==
    /\ toolPc = "checked"
    /\ source_code = Nothing
    /\ test_code # Nothing
    /\ result[1].boundary_analysis = Nothing
    /\ result[1].passed

ends_with(text, suffix) ==
    /\ Len(suffix) <= Len(text)
    /\ SubSeq(text, Len(text) - Len(suffix) + 1, Len(text)) = suffix

IsPointsLine(l) == starts_with(l, "Add ~") /\ ends_with(l, " more complexity points to tests")
HasComplexityLines(recommendations) ==
    /\ Len(recommendations) >= 1 + Len(Hints)
    /\ IsPointsLine(recommendations[1])
    /\ SubSeq(recommendations, 2, 1 + Len(Hints)) = Hints
NoComplexityLines(recommendations) ==
    \A i \in 1..Len(recommendations) :
        /\ ~IsPointsLine(recommendations[i])
        /\ \A h \in 1..Len(Hints) : recommendations[i] # Hints[h]

\* C15 as stated: whenever passed is false, for either reason, the
\* recommendations contain the points line and the hints; they are empty
\* whenever passed is true.
C15_AsStated ==
    toolPc \in {"analyzed", "checked"} =>
        /\ ~result[1].passed => HasComplexityLines(result[1].recommendations)
        /\ result[1].passed => result[1].recommendations = <<>>

\* C15, amended: a failed result whose ratio is below the threshold starts
\* with the points line and the hints; one that fails on the boundary
\* coverage alone has neither; a passed result has no recommendations.
C15_ComplexityLinesOnRatioFailure ==
    toolPc \in {"analyzed", "checked"} =>
        /\ (~result[1].passed /\ ~ComplexityVerdict)
               => HasComplexityLines(result[1].recommendations)
        /\ (~result[1].passed /\ ComplexityVerdict)
               => NoComplexityLines(result[1].recommendations)
        /\ result[1].passed => result[1].recommendations = <<>>

C15_CoverageFailureAlone ==
    /\ toolPc = "checked"
    /\ ~result[1].passed
    /\ ComplexityVerdict
    /\ result[1].recommendations # <<>>
    /\ NoComplexityLines(result[1].recommendations)

----------------------------------------------------------------------------
(* main.rs of the comparison tool: one run of the process.  `arg` holds    *)
(* the parsed Args and what the file system holds at the two paths,        *)
(* `returned` what the run has done so far: the lines it printed, the      *)
(* files it parsed, and its exit code at the end.                          *)

Args(test_file, source_file, threshold_arg, boundary_threshold_arg, level, no_check_boundaries) ==
    [test_file |-> test_file, source_file |-> source_file,
     threshold |-> threshold_arg, boundary_threshold |-> boundary_threshold_arg,
     level |-> level, no_check_boundaries |-> no_check_boundaries]

\* a < b and a > b on f64: false when either side is NaN.
f64_lt(a, b) == a # NaN /\ b # NaN /\ a < b
f64_gt(a, b) == a # NaN /\ b # NaN /\ a > b

\* Path::exists.
exists(kind) == kind # "missing"

\* The checks of main, in their order: the message of the first that fails,
\* or Nothing.  validate_arguments is the reading that leaves the existence
\* of the files to the analysis.
validate_arguments(args, paths) ==
    IF f64_lt(args.threshold, 0) \/ f64_gt(args.threshold, 200)
    THEN Some("Error: threshold must be between 0.0 and 2.0")
    ELSE IF f64_lt(args.boundary_threshold, 0) \/ f64_gt(args.boundary_threshold, 100)
    THEN Some("Error: boundary-threshold must be between 0.0 and 1.0")
    ELSE IF args.level # "warn" /\ args.level # "error"
    THEN Some("Error: level must be 'warn' or 'error'")
    ELSE Nothing
validate(args, paths) ==
    IF f64_lt(args.threshold, 0) \/ f64_gt(args.threshold, 200)
    THEN Some("Error: threshold must be between 0.0 and 2.0")
    ELSE IF f64_lt(args.boundary_threshold, 0) \/ f64_gt(args.boundary_threshold, 100)
    THEN Some("Error: boundary-threshold must be between 0.0 and 1.0")
    ELSE IF args.level # "warn" /\ args.level # "error"
    THEN Some("Error: level must be 'warn' or 'error'")
    ELSE IF ~exists(paths.test)
    THEN Some("Error: Test file not found: " \o args.test_file)
    ELSE IF ~exists(paths.source)
    THEN Some("Error: Source file not found: " \o args.source_file)
    ELSE Nothing

\* The exit code after the report.
exit_code(passed, level) == IF ~passed /\ level = "error" THEN 1 ELSE 0

CliThresholds == {-1, 0, 70, 200, 201, NaN}
CliBoundaryThresholds == {-1, 80, 100, 101, NaN}
Levels == {"warn", "error", "info"}
FileKinds == {"missing", "directory", "file"}
CliTestFiles == {Some("f(1);\n"), Some("0, 255, -1, 256\n")}
CliSourceFiles == {Some("uint8_t counter;\n")}
CliTestSuites == {<<>>, << <<7, 5>> >>, << <<6, 5>> >>}
CliSourceSuites == {<<>>, << <<5, 5>>, <<5, 5>> >>}

\* main, lines 47-71.
Validate ==
    /\ toolPc = "main"
    /\ LET error == validate(arg[1], arg[2])
       IN  IF error # Nothing
           THEN /\ returned' = <<error[1], "exit 1">>
                /\ toolPc' = "exited"
           ELSE /\ toolPc' = "validated"
                /\ UNCHANGED returned
    /\ UNCHANGED <<analyzerVars, detectorVars, arg>>
    /\ UNCHANGED astVars
    /\ UNCHANGED slocVars
    /\ UNCHANGED scanVars

\* TestQualityAnalyzer::new, first half: analyze_file(test_file)?.  An Err
\* leaves main through `?`, which prints it and exits with code 1.
AnalyzeTestFile ==
    /\ toolPc = "validated"
    /\ IF arg[2].test = "file"
       THEN /\ \E suite \in CliTestSuites :
                 test_analysis' = Some(FileAnalysisOf(arg[1].test_file, suite))
            /\ returned' = Append(returned, "parsed " \o arg[1].test_file)
            /\ toolPc' = "test"
       ELSE /\ returned' = returned \o <<"Error: " \o arg[1].test_file, "exit 1">>
            /\ toolPc' = "exited"
            /\ UNCHANGED test_analysis
    /\ UNCHANGED <<source_analysis, threshold, boundary_threshold, result, detectorVars, arg>>
    /\ UNCHANGED astVars
    /\ UNCHANGED slocVars
    /\ UNCHANGED scanVars

\* TestQualityAnalyzer::new, second half: analyze_file(source_file)? and the
\* analyzer built from the two analyses and the two thresholds.
AnalyzeSourceFile ==
    /\ toolPc = "test"
    /\ IF arg[2].source = "file"
       THEN /\ \E suite \in CliSourceSuites :
                 source_analysis' = Some(FileAnalysisOf(arg[1].source_file, suite))
            /\ threshold' = arg[1].threshold
            /\ boundary_threshold' = arg[1].boundary_threshold
            /\ returned' = Append(returned, "parsed " \o arg[1].source_file)
            /\ toolPc' = "constructed"
       ELSE /\ returned' = returned \o <<"Error: " \o arg[1].source_file, "exit 1">>
            /\ toolPc' = "exited"
            /\ UNCHANGED <<source_analysis, threshold, boundary_threshold>>
    /\ UNCHANGED <<test_analysis, result, detectorVars, arg>>
    /\ UNCHANGED astVars
    /\ UNCHANGED slocVars
    /\ UNCHANGED scanVars

\* analyzer.analyze(!args.no_check_boundaries).
RunAnalysis ==
    /\ toolPc = "constructed"
    /\ result' = Some(analyze(Analyzer, ~arg[1].no_check_boundaries, source_code, test_code))
    /\ returned' = Append(returned, "analyzed")
    /\ toolPc' = "computed"
    /\ UNCHANGED <<test_analysis, source_analysis, threshold, boundary_threshold,
                   detectorVars, arg>>
    /\ UNCHANGED astVars
    /\ UNCHANGED slocVars
    /\ UNCHANGED scanVars

\* reporter.print_report(&result), by the line that closes the report.
PrintReport ==
    /\ toolPc = "computed"
    /\ returned' = Append(returned, IF result[1].passed THEN "Result: PASS" ELSE "Result: FAIL")
    /\ toolPc' = "reported"
    /\ UNCHANGED <<analyzerVars, detectorVars, arg>>
    /\ UNCHANGED astVars
    /\ UNCHANGED slocVars
    /\ UNCHANGED scanVars

\* main, lines 88-92.
Exit ==
    /\ toolPc = "reported"
    /\ returned' = Append(returned,
                          "exit " \o ToString(exit_code(result[1].passed, arg[1].level)))
    /\ toolPc' = "exited"
    /\ UNCHANGED <<analyzerVars, detectorVars, arg>>
    /\ UNCHANGED astVars
    /\ UNCHANGED slocVars
    /\ UNCHANGED scanVars

InitCli ==
    /\ InitFile(Void, <<>>, "") /\ SlocInit
    /\ ScanIdle
    /\ AnalyzerIdle
    /\ boundaries = <<>> /\ coverage = Nothing
    /\ toolPc = "main" /\ returned = <<>>
    /\ \E t \in CliThresholds, b \in CliBoundaryThresholds, level \in Levels,
          no_check_boundaries \in BOOLEAN, test \in FileKinds, source \in FileKinds :
          arg = <<Args("test.c", "source.c", t, b, level, no_check_boundaries),
                  [test |-> test, source |-> source]>>
    /\ test_code \in IF arg[2].test = "file" THEN CliTestFiles ELSE {Nothing}
    /\ source_code \in IF arg[2].source = "file" THEN CliSourceFiles ELSE {Nothing}
NextCli ==
    Validate \/ AnalyzeTestFile \/ AnalyzeSourceFile \/ RunAnalysis \/ PrintReport \/ Exit
SpecCli == InitCli /\ [][NextCli]_vars

\* The exit code of a finished run.
ExitCode == IF returned[Len(returned)] = "exit 0" THEN 0 ELSE 1
Exited == toolPc = "exited"
Did(event) == \E i \in 1..Len(returned) : returned[i] = event

\* A threshold within lo..hi; a NaN is within no range.
Within01(x, hi) == x # NaN /\ 0 <= x /\ x <= hi

\* An input that the claim calls a validation error.
InvalidInput ==
    \/ ~Within01(arg[1].threshold, 200)
    \/ ~Within01(arg[1].boundary_threshold, 100)
    \/ arg[1].level \notin {"warn", "error"}
    \/ arg[2].test = "missing"
    \/ arg[2].source = "missing"

\* C21: the comparison tool exits with 0 when the analysis passed and when
\* it failed at level warn, with 1 when it failed at level error, and with 1
\* on every validation error: a threshold outside 0.0..2.0, a boundary
\* threshold outside 0.0..1.0, a level other than warn and error, a missing
\* test or source file.
C21_ExitCodes ==
    Exited =>
        /\ InvalidInput => ExitCode = 1
        /\ (Did("Result: PASS") \/ Did("Result: FAIL")) =>
               /\ result[1].passed => ExitCode = 0
               /\ (~result[1].passed /\ arg[1].level = "warn") => ExitCode = 0
               /\ (~result[1].passed /\ arg[1].level = "error") => ExitCode = 1

\* A run in which one of the five checks of main fails.
ValidationFails ==
    \/ arg[1].threshold # NaN /\ (arg[1].threshold < 0 \/ arg[1].threshold > 200)
    \/ arg[1].boundary_threshold # NaN
         /\ (arg[1].boundary_threshold < 0 \/ arg[1].boundary_threshold > 100)
    \/ arg[1].level \notin {"warn", "error"}
    \/ arg[2].test = "missing"
    \/ arg[2].source = "missing"

AnalysisBegan ==
    \/ test_analysis # Nothing \/ source_analysis # Nothing \/ result # Nothing
    \/ \E i \in 1..Len(returned) :
          returned[i] \in {"parsed test.c", "parsed source.c", "analyzed",
                           "Result: PASS", "Result: FAIL"}

\* C22: every validation check is decided before the first step of the
\* analysis: a run with a validation failure ends with an error message and
\* the exit code 1, no file parsed, no metric computed, no report printed.
C22_ValidationFirst ==
    /\ AnalysisBegan => ~ValidationFails
    /\ (ValidationFails /\ toolPc # "main") =>
          /\ Exited
          /\ Len(returned) = 2
          /\ starts_with(returned[1], "Error: ")
          /\ returned[2] = "exit 1"

C22_MissingSourceFile ==
    /\ Exited
    /\ arg[2].test = "file"
    /\ arg[2].source = "missing"
    /\ returned = <<"Error: Source file not found: source.c", "exit 1">>
    /\ ~AnalysisBegan


\* ---------------------------------------------------------------------------
\* The metric scan's command line (src/src/main.rs).
\*
\* A file of the scan is a record [path, ext, readable, functions]: readable
\* says whether fs::read_to_string succeeds on it, and functions is what
\* collect_function_metrics returns for its tree, each function reduced to the
\* fields the summary orders by (name, mccabe, cognitive); the remaining
\* columns of a detail line are printed from the same record and left out.
\* The parser has its language set, so parse returns a tree; the current
\* directory is taken to be writable.
\* ---------------------------------------------------------------------------
MaxEntries == 2

ScanFunction(name, mccabe, cognitive) ==
    [name |-> name, mccabe |-> mccabe, cognitive |-> cognitive]

max_complexity(func) == Max(func.mccabe, func.cognitive)

get_complexity_emoji(complexity) ==
    IF complexity >= 1 /\ complexity <= 10 THEN "smiley"
    ELSE IF complexity >= 11 /\ complexity <= 20 THEN "neutral"
    ELSE IF complexity >= 21 /\ complexity <= 49 THEN "angry"
    ELSE "sad"

\* collect_function_metrics(&tree, &source_code, file_path) seen from main: the
\* functions of the file, each stamped with the path it was given.
metrics_of_file(file, file_path) ==
    [i \in 1..Len(file.functions) |->
        [name |-> file.functions[i].name,
         file_path |-> file_path,
         mccabe |-> file.functions[i].mccabe,
         cognitive |-> file.functions[i].cognitive]]

\* What the walk keeps: regular files whose extension is "c" or "h".
collected(entries) ==
    SelectSeq(entries, LAMBDA e : e.ext = ".c" \/ e.ext = ".h")

\* collect_files: Ok(files) as Some(files), a bail as its message.
collect_files(path, recursive) ==
    IF path.kind = "file" THEN [ok |-> TRUE, files |-> path.entries, error |-> ""]
    ELSE IF path.kind = "directory"
    THEN IF ~recursive
         THEN [ok |-> FALSE, files |-> <<>>,
               error |-> "Error: Path is a directory. Use -r/--recursive"]
         ELSE IF collected(path.entries) = <<>>
              THEN [ok |-> FALSE, files |-> <<>>,
                    error |-> "Error: No C files (.c or .h) found in directory"]
              ELSE [ok |-> TRUE, files |-> collected(path.entries), error |-> ""]
    ELSE [ok |-> FALSE, files |-> <<>>, error |-> "Error: Path does not exist"]

\* One function's line of detail, as write_detailed_report and analyze_code
\* print it without --verbose; file_path is "" in single-file output.
detail_line(func) ==
    get_complexity_emoji(max_complexity(func)) \o " " \o func.name
    \o (IF func.file_path = "" THEN "" ELSE " [" \o func.file_path \o "]")
    \o " (McCabe: " \o ToString(func.mccabe)
    \o ", Cognitive: " \o ToString(func.cognitive) \o ")"

detail_block(func) ==
    <<"Function: " \o func.name \o " " \o get_complexity_emoji(max_complexity(func))
        \o (IF func.file_path = "" THEN "" ELSE " [" \o func.file_path \o "]"),
      "  McCabe Complexity: " \o ToString(func.mccabe),
      "  Cognitive Complexity: " \o ToString(func.cognitive),
      "  Max Complexity: " \o ToString(max_complexity(func))>>

RECURSIVE detail_lines(_, _)
detail_lines(functions, verbose) ==
    IF functions = <<>> THEN <<>>
    ELSE (IF verbose THEN detail_block(Head(functions))
                     ELSE <<detail_line(Head(functions))>>)
         \o detail_lines(Tail(functions), verbose)

\* write_detailed_report: the lines of report.txt.
write_detailed_report(functions, verbose) == detail_lines(functions, verbose)

RECURSIVE total_of(_, _)
total_of(functions, field) ==
    IF functions = <<>> THEN 0
    ELSE Head(functions)[field] + total_of(Tail(functions), field)

\* sorted.sort_by(|a, b| b.max_complexity().cmp(&a.max_complexity())):
\* stable, the worst first.
RECURSIVE insert_by_max_complexity(_, _)
insert_by_max_complexity(sorted, func) ==
    IF sorted = <<>> THEN <<func>>
    ELSE IF max_complexity(Head(sorted)) >= max_complexity(func)
         THEN <<Head(sorted)>> \o insert_by_max_complexity(Tail(sorted), func)
         ELSE <<func>> \o sorted

RECURSIVE sort_by_max_complexity(_)
sort_by_max_complexity(functions) ==
    IF functions = <<>> THEN <<>>
    ELSE insert_by_max_complexity(
             sort_by_max_complexity(SubSeq(functions, 1, Len(functions) - 1)),
             functions[Len(functions)])

top_line(i, func) ==
    ToString(i) \o ". " \o get_complexity_emoji(max_complexity(func)) \o " "
    \o func.name \o " [" \o func.file_path \o "]"

top_lines(worst) == [i \in 1..Len(worst) |-> top_line(i, worst[i])]

display_recursive_summary(functions, total_files, skipped) ==
    <<"=== TOP 5 WORST FUNCTIONS ===">>
    \o top_lines(take(sort_by_max_complexity(functions), 5))
    \o <<"=== TOTALS & AVERAGES ===",
         "  Total Functions: " \o ToString(Len(functions)),
         "  Total McCabe Complexity: " \o ToString(total_of(functions, "mccabe")),
         "  Total Cognitive Complexity: " \o ToString(total_of(functions, "cognitive")),
         "Detailed per-function output written to report.txt",
         "=== FILES PROCESSED ===",
         "  Total files found: " \o ToString(total_files),
         "  Successfully processed: " \o ToString(total_files - skipped)>>
    \o (IF skipped > 0
        THEN <<"  Skipped (encoding/parse errors): " \o ToString(skipped)>>
        ELSE <<>>)

\* analyze_code: the traditional output of one file.
analyze_code(file, verbose) ==
    detail_lines(metrics_of_file(file, ""), verbose)
    \o <<"Summary:",
         "  Total Functions: " \o ToString(Len(file.functions)),
         "  Total McCabe Complexity: " \o ToString(total_of(file.functions, "mccabe")),
         "  Total Cognitive Complexity: " \o ToString(total_of(file.functions, "cognitive"))>>

\* The per-file loop of matrix mode.
RECURSIVE matrix_output(_, _)
matrix_output(list, many) ==
    IF list = <<>> THEN <<>>
    ELSE (IF many THEN <<"=== " \o Head(list).path \o " ===">> ELSE <<>>)
         \o (IF Head(list).readable
             THEN <<"matrix of " \o Head(list).path>>
             ELSE <<"Warning: Skipping " \o Head(list).path>>)
         \o matrix_output(Tail(list), many)

\* The loop of lines 105-131: [all_metrics, skipped_files, warnings].
RECURSIVE scan_files(_)
scan_files(list) ==
    IF list = <<>> THEN [all_metrics |-> <<>>, skipped_files |-> 0, warnings |-> <<>>]
    ELSE LET file == list[Len(list)]
             before == scan_files(SubSeq(list, 1, Len(list) - 1))
         IN  IF ~file.readable
             THEN [all_metrics |-> before.all_metrics,
                   skipped_files |-> before.skipped_files + 1,
                   warnings |-> Append(before.warnings, "Warning: Skipping " \o file.path)]
             ELSE [all_metrics |-> before.all_metrics \o metrics_of_file(file, file.path),
                   skipped_files |-> before.skipped_files,
                   warnings |-> before.warnings]

\* main's test for the traditional output of one file.
single_file_mode(list, recursive) == Len(list) = 1

\* ---- the run, one action per stage of main ----
ScanContents ==
    {[readable |-> FALSE, functions |-> <<>>],
     [readable |-> TRUE, functions |-> <<>>],
     [readable |-> TRUE, functions |-> <<ScanFunction("f", 1, 0)>>],
     [readable |-> TRUE, functions |-> <<ScanFunction("g", 3, 7), ScanFunction("h", 12, 2),
                                         ScanFunction("k", 7, 7)>>],
     [readable |-> TRUE, functions |-> <<ScanFunction("p", 2, 0), ScanFunction("q", 25, 60),
                                         ScanFunction("r", 21, 1)>>]}
Extensions == {".c", ".h", ".md"}

EntryAt(i, ext, content) ==
    [path |-> "d/" \o ToString(i) \o ext, ext |-> ext,
     readable |-> content.readable, functions |-> content.functions]

Directories ==
    UNION {{[i \in 1..n |-> EntryAt(i, exts[i], contents[i])] :
               exts \in [1..n -> Extensions], contents \in [1..n -> ScanContents]} :
           n \in 0..MaxEntries}

Paths ==
    {[kind |-> "missing", entries |-> <<>>]}
    \cup {[kind |-> "file", entries |-> <<EntryAt(0, ext, content)>>] :
             ext \in Extensions, content \in ScanContents}
    \cup {[kind |-> "directory", entries |-> d] : d \in Directories}

ScanArgs(file, recursive, verbose, matrix) ==
    [file |-> file, recursive |-> recursive, verbose |-> verbose, matrix |-> matrix]

CollectFiles ==
    /\ toolPc = "scan"
    /\ LET found == collect_files(arg.file, arg.recursive)
       IN  IF found.ok
           THEN /\ files' = found.files
                /\ toolPc' = "collected"
                /\ UNCHANGED returned
           ELSE /\ returned' = <<found.error, "exit 1">>
                /\ toolPc' = "exited"
                /\ UNCHANGED files
    /\ UNCHANGED <<all_metrics, skipped_files, report, arg>>
    /\ UNCHANGED <<analyzerVars, detectorVars>>
    /\ UNCHANGED astVars
    /\ UNCHANGED slocVars

MatrixMode ==
    /\ toolPc = "collected"
    /\ arg.matrix
    /\ returned' = matrix_output(files, Len(files) > 1) \o <<"exit 0">>
    /\ toolPc' = "exited"
    /\ UNCHANGED <<arg>>
    /\ UNCHANGED <<analyzerVars, detectorVars>>
    /\ UNCHANGED astVars
    /\ UNCHANGED slocVars
    /\ UNCHANGED scanVars

SingleFileMode ==
    /\ toolPc = "collected"
    /\ ~arg.matrix
    /\ single_file_mode(files, arg.recursive)
    /\ returned' = IF files[1].readable
                   THEN analyze_code(files[1], arg.verbose) \o <<"exit 0">>
                   ELSE <<"Error: Failed to read file: " \o files[1].path, "exit 1">>
    /\ toolPc' = "exited"
    /\ UNCHANGED <<arg>>
    /\ UNCHANGED <<analyzerVars, detectorVars>>
    /\ UNCHANGED astVars
    /\ UNCHANGED slocVars
    /\ UNCHANGED scanVars

ScanFiles ==
    /\ toolPc = "collected"
    /\ ~arg.matrix
    /\ ~single_file_mode(files, arg.recursive)
    /\ LET scanned == scan_files(files)
       IN  /\ all_metrics' = scanned.all_metrics
           /\ skipped_files' = scanned.skipped_files
           /\ returned' = scanned.warnings
    /\ toolPc' = "scanned"
    /\ UNCHANGED <<files, report, arg>>
    /\ UNCHANGED <<analyzerVars, detectorVars>>
    /\ UNCHANGED astVars
    /\ UNCHANGED slocVars

NoFunctions ==
    /\ toolPc = "scanned"
    /\ all_metrics = <<>>
    /\ returned' = returned \o <<"Error: No functions found in any files (skipped "
                                   \o ToString(skipped_files) \o " files)", "exit 1">>
    /\ toolPc' = "exited"
    /\ UNCHANGED <<arg>>
    /\ UNCHANGED <<analyzerVars, detectorVars>>
    /\ UNCHANGED astVars
    /\ UNCHANGED slocVars
    /\ UNCHANGED scanVars

WriteDetailedReport ==
    /\ toolPc = "scanned"
    /\ all_metrics # <<>>
    /\ report' = Some(write_detailed_report(all_metrics, arg.verbose))
    /\ toolPc' = "written"
    /\ UNCHANGED <<files, all_metrics, skipped_files, arg, returned>>
    /\ UNCHANGED <<analyzerVars, detectorVars>>
    /\ UNCHANGED astVars
    /\ UNCHANGED slocVars

DisplayRecursiveSummary ==
    /\ toolPc = "written"
    /\ returned' = returned
                   \o display_recursive_summary(all_metrics, Len(files), skipped_files)
                   \o <<"exit 0">>
    /\ toolPc' = "exited"
    /\ UNCHANGED <<arg>>
    /\ UNCHANGED <<analyzerVars, detectorVars>>
    /\ UNCHANGED astVars
    /\ UNCHANGED slocVars
    /\ UNCHANGED scanVars

InitScan ==
    /\ InitFile(Void, <<>>, "") /\ SlocInit
    /\ ScanIdle
    /\ AnalyzerIdle
    /\ DetectorIdle
    /\ toolPc = "scan" /\ returned = <<>>
    /\ \E file \in Paths, recursive \in BOOLEAN, verbose \in BOOLEAN, matrix \in BOOLEAN :
          arg = ScanArgs(file, recursive, verbose, matrix)
NextScan ==
    \/ CollectFiles
    \/ MatrixMode
    \/ SingleFileMode
    \/ ScanFiles
    \/ NoFunctions
    \/ WriteDetailedReport
    \/ DisplayRecursiveSummary
SpecScan == InitScan /\ [][NextScan]_vars

\* What a recursive scan has to report: the functions of every collected file
\* that could be read, in the order of the walk.
RECURSIVE functions_found(_)
functions_found(list) ==
    IF list = <<>> THEN <<>>
    ELSE (IF Head(list).readable THEN metrics_of_file(Head(list), Head(list).path)
                                 ELSE <<>>)
         \o functions_found(Tail(list))

RecursiveRun ==
    /\ toolPc = "exited"
    /\ arg.file.kind = "directory" /\ arg.recursive /\ ~arg.matrix
    /\ functions_found(collected(arg.file.entries)) # <<>>

Printed(lines) ==
    \E i \in 0..(Len(returned) - Len(lines)) :
       SubSeq(returned, i + 1, i + Len(lines)) = lines

ReportAndSummary ==
    LET functions == functions_found(collected(arg.file.entries))
        worst == take(sort_by_max_complexity(functions), 5)
    IN  /\ report = Some(detail_lines(functions, arg.verbose))
        /\ Printed(<<"=== TOP 5 WORST FUNCTIONS ===">> \o top_lines(worst)
                   \o <<"=== TOTALS & AVERAGES ===">>)
        /\ \A i \in 1..Len(worst) : \A j \in 1..Len(functions) :
              \/ max_complexity(functions[j]) <= max_complexity(worst[i])
              \/ \E k \in 1..Len(worst) : worst[k] = functions[j]

\* C23: a recursive run on a directory, without -m, that finds at least one
\* function ends with every collected file's per-function detail in report.txt
\* and with the summary and its top 5 by max(mccabe, cognitive) on stdout,
\* whatever the number of collected files, one included.
C23_RecursiveReport == RecursiveRun => ReportAndSummary

\* The same for two collected files or more.
C23_SeveralFiles ==
    (RecursiveRun /\ Len(collected(arg.file.entries)) >= 2) => ReportAndSummary

C23_SixFunctions ==
    /\ RecursiveRun
    /\ Len(functions_found(collected(arg.file.entries))) > 5
    /\ report # Nothing


\* ---------------------------------------------------------------------------
\* Function discovery in the two programs: collect_function_metrics of the
\* metric scan (src/src/main.rs) and analyze_file of the comparison analyzer
\* (src/knots-test-complexity/src/analyzer.rs), on one and the same tree.
\* ---------------------------------------------------------------------------
MaxDefinitions == 3

\* analyzer.rs get_declarator_name: the first identifier, "unknown" without one.
RECURSIVE analyzer_get_declarator_name(_, _), analyzer_declarator_name_among(_, _)
analyzer_get_declarator_name(t, n) == analyzer_declarator_name_among(t, t[n].kids)

analyzer_declarator_name_among(t, ns) ==
    IF ns = <<>> THEN "unknown"
    ELSE LET child == Head(ns)
         IN  IF t[child].kind = "identifier" THEN t[child].text
             ELSE IF /\ t[child].kind \in {"pointer_declarator", "function_declarator"}
                     /\ analyzer_get_declarator_name(t, child) # "unknown"
                  THEN analyzer_get_declarator_name(t, child)
             ELSE analyzer_declarator_name_among(t, Tail(ns))

\* analyzer.rs get_function_name_from_declarator: Option<String>.
RECURSIVE get_function_name_from_declarator(_, _), name_from_declarator_among(_, _)
get_function_name_from_declarator(t, n) == name_from_declarator_among(t, t[n].kids)

name_from_declarator_among(t, ns) ==
    IF ns = <<>> THEN Nothing
    ELSE LET child == Head(ns)
         IN  IF t[child].kind = "function_declarator"
             THEN Some(analyzer_get_declarator_name(t, child))
             ELSE IF /\ t[child].kind = "pointer_declarator"
                     /\ get_function_name_from_declarator(t, child) # Nothing
                  THEN get_function_name_from_declarator(t, child)
             ELSE name_from_declarator_among(t, Tail(ns))

\* analyzer.rs extract_function_name: "unknown" when no name is found.
RECURSIVE extract_function_name_among(_, _)
extract_function_name_among(t, ns) ==
    IF ns = <<>> THEN "unknown"
    ELSE LET child == Head(ns)
         IN  IF t[child].kind = "function_declarator"
             THEN analyzer_get_declarator_name(t, child)
             ELSE IF /\ t[child].kind = "pointer_declarator"
                     /\ get_function_name_from_declarator(t, child) # Nothing
                  THEN get_function_name_from_declarator(t, child)[1]
             ELSE extract_function_name_among(t, Tail(ns))

extract_function_name(t, n) == extract_function_name_among(t, t[n].kids)

\* The rows of a definition.  Every definition of these files is written as a
\* header line and a line with its closing brace, the nested ones in between:
\* a definition starts after the header of every definition before it in
\* pre-order and after the closing line of those that do not enclose it.
definitions_of(t) ==
    SelectSeq(subtree(t, 1), LAMBDA n : t[n].kind = "function_definition")

position_in(seq, n) == CHOOSE i \in 1..Len(seq) : seq[i] = n

start_row(t, n) ==
    LET all == definitions_of(t)
        k == position_in(all, n)
        before == {all[i] : i \in 1..(k - 1)}
        enclosing == before \cap Ancestors(t, n)
    IN  1 + Cardinality(enclosing) + 2 * Cardinality(before \ enclosing)

end_row(t, n) ==
    start_row(t, n) + 1
    + 2 * Cardinality({d \in Within(t, n) : d # n /\ t[d].kind = "function_definition"})

extract_function_metrics(t, n) ==
    FunctionMetrics(extract_function_name(t, n),
                    calculate_mccabe_complexity(t, n),
                    calculate_cognitive_complexity(t, n),
                    start_row(t, n), end_row(t, n))

\* analyzer.rs visit_functions: every function_definition node, in pre-order.
analyzer_visit_functions(t) ==
    SelectSeq(subtree(t, 1), LAMBDA n : t[n].kind = "function_definition")

RECURSIVE add_functions(_, _, _)
add_functions(self, t, nodes) ==
    IF nodes = <<>> THEN self
    ELSE add_functions(add_function(self, extract_function_metrics(t, Head(nodes))),
                       t, Tail(nodes))

analyze_file(t, file_path) ==
    add_functions(FileAnalysis_new(file_path), t, analyzer_visit_functions(t))

\* ---- the files: definitions of several shapes, nested ones included ----
\* `void NAME(){}`, `void *NAME(){}`, `void **NAME(){}`, `void (NAME)(){}`
\* and `void (*NAME()){}`: the parenthesized declarators hold the identifier
\* where neither program looks for it.
DeclaratorShapes == {"plain", "pointer", "pointer2", "parenthesized", "grouped"}

DefinitionNodes(shape, name) ==
    LET head == <<Node("function_definition", "", "", <<2, 4, 3>>),
                  Node("primitive_type", "type", "void", <<>>),
                  Node("compound_statement", "body", "", <<>>)>>
        fn == <<Node("function_declarator", "declarator", "", <<2, 3>>),
                Node("identifier", "declarator", name, <<>>),
                Node("parameter_list", "parameters", "", <<>>)>>
        at(nodes, k) == [i \in 1..Len(nodes) |-> [nodes[i] EXCEPT !.kids = Offset(@, k)]]
    IN  CASE shape = "plain" -> head \o at(fn, 3)
          [] shape = "pointer" ->
                head \o <<Node("pointer_declarator", "declarator", "", <<5>>)>> \o at(fn, 4)
          [] shape = "pointer2" ->
                head \o <<Node("pointer_declarator", "declarator", "", <<5>>),
                          Node("pointer_declarator", "declarator", "", <<6>>)>> \o at(fn, 5)
          [] shape = "parenthesized" ->
                head \o <<Node("function_declarator", "declarator", "", <<5, 7>>),
                          Node("parenthesized_declarator", "declarator", "", <<6>>),
                          Node("identifier", "", name, <<>>),
                          Node("parameter_list", "parameters", "", <<>>)>>
          [] shape = "grouped" ->
                head \o <<Node("parenthesized_declarator", "declarator", "", <<5>>),
                          Node("pointer_declarator", "declarator", "", <<6>>)>> \o at(fn, 5)

DefinitionLines(shape, name) ==
    <<(CASE shape = "plain" -> "void " \o name \o "()"
         [] shape = "pointer" -> "void *" \o name \o "()"
         [] shape = "pointer2" -> "void **" \o name \o "()"
         [] shape = "parenthesized" -> "void (" \o name \o ")()"
         [] shape = "grouped" -> "void (*" \o name \o "())") \o "{",
      "}">>

\* The places a definition can be written at the end of the text: the file
\* itself and the body of every definition still open there.
OpenScopes(t) == {1} \cup {c \in spine(t, 1) : t[c].kind = "compound_statement"}

Depth(t, c) ==
    Cardinality({a \in AncestorsOrSelf(t, c) : t[a].kind = "function_definition"})

WriteDefinition ==
    /\ pc = "build"
    /\ steps < MaxDefinitions
    /\ \E c \in OpenScopes(ast), shape \in DeclaratorShapes :
         LET name == "f" \o ToString(steps + 1)
             at == Len(src) - Depth(ast, c)
         IN  /\ ast' = Graft(ast, c, DefinitionNodes(shape, name))
             /\ src' = SubSeq(src, 1, at) \o DefinitionLines(shape, name)
                       \o SubSeq(src, at + 1, Len(src))
    /\ steps' = steps + 1
    /\ UNCHANGED <<pc, metrics, prev>>
    /\ UNCHANGED slocVars
    /\ UNCHANGED toolVars

\* The comparison analyzer reads the file the scan has read.
AnalyzeFile ==
    /\ pc = "done"
    /\ source_analysis = Nothing
    /\ source_analysis' = Some(analyze_file(ast, "source.c"))
    /\ UNCHANGED <<test_analysis, threshold, boundary_threshold, result>>
    /\ UNCHANGED <<detectorVars, callVars, toolPc>>
    /\ UNCHANGED astVars
    /\ UNCHANGED slocVars
    /\ UNCHANGED scanVars

InitDiscover ==
    /\ ast = <<Node("translation_unit", "", "", <<>>)>>
    /\ src = <<>>
    /\ pc = "build" /\ steps = 0 /\ metrics = <<>> /\ prev = <<>>
    /\ SlocInit
    /\ ToolIdle
NextDiscover ==
    \/ WriteDefinition
    \/ Analyze
    \/ AnalyzeFile
SpecDiscover == InitDiscover /\ [][NextDiscover]_vars

Discovered == pc = "done" /\ source_analysis # Nothing

\* One record per definition, in pre-order, under the name it declares or
\* "unknown": `names` are the names of the records.
OnePerDefinition(names) ==
    /\ Len(names) = Len(definitions_of(ast))
    /\ \A i \in 1..Len(names) :
          LET declared == get_function_name(ast, definitions_of(ast)[i])
          IN  names[i] = IF declared = NoName THEN "unknown" ELSE declared

InStartOrder(functions) ==
    \A i, j \in 1..Len(functions) :
       i < j => functions[i].line_start < functions[j].line_start

ScanNames == [i \in 1..Len(metrics) |-> metrics[i].name]
AnalyzerNames ==
    [i \in 1..Len(source_analysis[1].functions) |->
        source_analysis[1].functions[i].function_name]

\* C24: function discovery yields exactly one record per function_definition
\* node, in pre-order and so by rising start line, nested definitions
\* included, and a definition whose identifier cannot be found yields a
\* record named "unknown" -- in the comparison analyzer and in the metric scan.
C24_OneRecordPerDefinition ==
    Discovered =>
        /\ OnePerDefinition(AnalyzerNames)
        /\ InStartOrder(source_analysis[1].functions)
        /\ OnePerDefinition(ScanNames)

\* The part of it that is about the comparison analyzer.
C24_AnalyzerRecords ==
    Discovered =>
        /\ OnePerDefinition(AnalyzerNames)
        /\ InStartOrder(source_analysis[1].functions)

C24_NestedAndUnnamed ==
    /\ Discovered
    /\ \E n \in 1..Len(ast) :
          /\ ast[n].kind = "function_definition"
          /\ get_function_name(ast, n) = NoName
          /\ \E a \in Ancestors(ast, n) : ast[a].kind = "function_definition"


\* ---------------------------------------------------------------------------
\* SpecContext: the condition of `if (c) { }` is grown into expressions of
\* &&, ||, == and parentheses, deep enough for `a && (b == (c && d))`, and the
\* function is scanned.
\* ---------------------------------------------------------------------------
MaxContext == 5

InitContext == InitExpr
NextContext ==
    \/ Grow({"&&", "||", "==", "()"}, MaxContext)
    \/ Analyze
SpecContext == InitContext /\ [][NextContext]_vars

LogicalNodes(t, n) == {b \in Within(t, n) : is_logical(t, b)}

\* The logical operator right above b, "None" when the node above it is not a
\* logical binary_expression.
OperatorAbove(t, b) ==
    IF Parent(t, b) # NoNode /\ is_logical(t, Parent(t, b))
    THEN operator_text(t, Parent(t, b)) ELSE NoOp

\* The nearest logical binary_expression above b within the condition,
\* whatever stands in between.
RECURSIVE OperatorInherited(_, _)
OperatorInherited(t, b) ==
    LET p == Parent(t, b)
    IN  IF p = NoNode \/ t[p].kind = "if_statement" THEN NoOp
        ELSE IF is_logical(t, p) THEN operator_text(t, p)
        ELSE OperatorInherited(t, p)

\* C25: the parent-operator context is none below every node that is not a
\* logical binary_expression, so a && or || adds 1 unless the node right
\* above it is a logical binary_expression of the same operator: the inner
\* && of `a && (b == (c && d))` adds 1 again.
C25_ContextReset ==
    Analysed =>
        metrics[1].cognitive - 1 =
            Cardinality({b \in LogicalNodes(ast, TheCondition) :
                            OperatorAbove(ast, b) # operator_text(ast, b)})

\* What the traversal does: the context is handed down through every node
\* that is not a control structure.
C25_ContextInherited ==
    Analysed =>
        metrics[1].cognitive - 1 =
            Cardinality({b \in LogicalNodes(ast, TheCondition) :
                            OperatorInherited(ast, b) # operator_text(ast, b)})

C25_InnerUnderEquality ==
    /\ Analysed
    /\ \E b \in LogicalNodes(ast, TheCondition) :
          /\ operator_text(ast, b) = "&&"
          /\ ast[Parent(ast, b)].kind = "parenthesized_expression"
          /\ operator_text(ast, Parent(ast, Parent(ast, b))) = "=="
          /\ OperatorInherited(ast, b) = "&&"
    /\ metrics[1].cognitive = 2


\* ---------------------------------------------------------------------------
\* The complexity check on a subject without complexity, under SpecCli.
\* ---------------------------------------------------------------------------
ComplexityOnly ==
    /\ result # Nothing
    /\ arg[1].no_check_boundaries
    /\ source_analysis[1].total_cyclomatic_complexity = 0

AcceptedThreshold == threshold # NaN /\ threshold >= 0 /\ threshold <= 200

\* C26: when the subject's total cyclomatic complexity is 0, analyze(false)
\* returns passed = true for every threshold from 0.0 to 2.0 and every test
\* file.
C26_TrivialSubjectPasses ==
    (ComplexityOnly /\ AcceptedThreshold) => result[1].passed

\* The same for the thresholds up to 1.0.
C26_UpToOne ==
    (ComplexityOnly /\ AcceptedThreshold /\ threshold <= 100) => result[1].passed

C26_TrivialSubjectAtTwo ==
    /\ ComplexityOnly
    /\ threshold = 200
    /\ ~result[1].passed


\* ---------------------------------------------------------------------------
\* SpecFolds: statements of every kind are written into and after the
\* `if (c) { }` of a function, its expressions are grown, and it is scanned.
\* ---------------------------------------------------------------------------
MaxFolds == 2

InitFolds == InitExpr
NextFolds ==
    \/ AddStatement(StatementKinds, MaxFolds)
    \/ AddElse(MaxFolds)
    \/ Grow({"&&", "||", "==", "?:"}, MaxFolds)
    \/ Analyze
SpecFolds == InitFolds /\ [][NextFolds]_vars

Gotos(t, n) == Cardinality(OfKind(t, n, {"goto_statement"}))

\* C27: for every subtree, calculate_mccabe_complexity - 1 is the conditions
\* of calculate_abc_complexity plus the number of goto_statement nodes.
C27_FoldsAgree ==
    \A n \in 1..Len(ast) :
       calculate_mccabe_complexity(ast, n) - 1
           = calculate_abc_complexity(ast, n).conditions + Gotos(ast, n)

C27_GotoAndTernary ==
    /\ Analysed
    /\ OfKind(ast, 1, {"goto_statement"}) # {}
    /\ OfKind(ast, 1, {"conditional_expression"}) # {}
    /\ metrics[1].mccabe = 4
    /\ metrics[1].abc.conditions = 2

\* ---------------------------------------------------------------------------
\* The classes of the test score, under SpecScore.
\* ---------------------------------------------------------------------------
\* TestScoringMetric::classification.
classification(self) ==
    IF self.total_score <= 10 THEN "Trivial"
    ELSE IF self.total_score <= 20 THEN "Simple"
    ELSE IF self.total_score <= 30 THEN "Moderate"
    ELSE IF self.total_score <= 40 THEN "Complex"
    ELSE IF self.total_score <= 50 THEN "Difficult"
    ELSE "Very Hard"

\* C28: total_score lies in -10..39 for every function, so classification()
\* returns Trivial, Simple, Moderate or Complex and never Difficult or
\* Very Hard.
C28_TotalRange ==
    Analysed =>
        /\ metrics[1].test_scoring.total_score \in -10..39
        /\ classification(metrics[1].test_scoring)
              \in {"Trivial", "Simple", "Moderate", "Complex"}

C28_LowestTotal ==
    /\ Analysed
    /\ metrics[1].test_scoring.total_score = -10
    /\ classification(metrics[1].test_scoring) = "Trivial"

\* ---------------------------------------------------------------------------
\* The BoundaryAnalysis of analyze_test_coverage, under SpecDetect.
\* ---------------------------------------------------------------------------
\* The boundaries with one of their four required values not among the test
\* file's literals, in the order of detection.
Lacking(analysis) ==
    SelectSeq(boundaries,
              LAMBDA b : \E k \in 1..4 : Required(b)[k] \notin analysis.found_test_values)

\* C29: in every BoundaryAnalysis coverage_percent lies in 0..100,
\* missing_boundaries has one entry for each boundary that lacks one of its
\* four required values, in detection order, and no other, and
\* coverage_percent is 100 exactly when missing_boundaries is empty.
C29_AnalysisInvariants ==
    coverage # Nothing =>
        LET analysis == coverage[1]
            percent == analysis.coverage_percent
            missing == analysis.missing_boundaries
        IN  /\ percent.num >= 0 /\ percent.num <= 100 * percent.den
            /\ Len(missing) = Len(Lacking(analysis))
            /\ \A i \in 1..Len(missing) :
                  starts_with(missing[i],
                              Lacking(analysis)[i].variable_name \o " ("
                              \o Lacking(analysis)[i].type_name \o "): missing values [")
            /\ (percent.num = 100 * percent.den) <=> (missing = <<>>)

C29_PartlyCovered ==
    /\ coverage # Nothing
    /\ coverage[1].coverage_percent.num > 0
    /\ coverage[1].coverage_percent.num < 100 * coverage[1].coverage_percent.den
    /\ Len(coverage[1].missing_boundaries) >= 1
    /\ Len(coverage[1].missing_boundaries) < Len(boundaries)

\* ---------------------------------------------------------------------------
\* SpecBranch: a function of loops and if / else if / else chains is scanned,
\* a `while (c) { }` is then written at the end of the body of one branch of
\* a chain, and the function is scanned again.
\* ---------------------------------------------------------------------------
MaxBranch == 3

\* The bodies of the branches: the block of an if, of the if of an else-if,
\* and of a plain else.
BranchBodies(t, f) ==
    {c \in OfKind(t, f, {"compound_statement"}) :
        t[Parent(t, c)].kind \in {"if_statement", "else_clause"}}

PlaceLoop ==
    /\ pc = "done"
    /\ Len(metrics) = 1
    /\ \E c \in BranchBodies(ast, FunctionOf(1)) :
          Rescan(Graft(ast, c, StatementNodes("while_statement")),
                 Write(src, StatementLines("while_statement")))

InitBranch ==
    /\ InitFile(Void, <<>>, "")
    /\ SlocInit
    /\ ToolIdle
NextBranch ==
    \/ AddStatement({"if_statement", "while_statement"}, MaxBranch)
    \/ AddElseIf(MaxBranch)
    \/ AddElse(MaxBranch)
    \/ Analyze
    \/ PlaceLoop
SpecBranch == InitBranch /\ [][NextBranch]_vars

\* The loop the edit wrote: the first of the four nodes added last.
TheNewLoop == Len(ast) - 3

\* The if_statement whose branch the block c is the body of.
BranchIf(t, c) ==
    IF t[Parent(t, c)].kind = "if_statement" THEN Parent(t, c)
    ELSE Parent(t, Parent(t, c))

\* The first if of the chain the if_statement i belongs to.
RECURSIVE HeadOf(_, _)
HeadOf(t, i) ==
    IF t[Parent(t, i)].kind = "else_clause" THEN HeadOf(t, Parent(t, Parent(t, i)))
    ELSE i

\* The tree before the edit.
BeforeTheEdit ==
    [i \in 1..(Len(ast) - 4) |->
        [ast[i] EXCEPT !.kids = SelectSeq(@, LAMBDA k : k # TheNewLoop)]]

\* The same loop written into the body of the chain's first if instead.
InTheFirstBranch ==
    LET head == HeadOf(ast, BranchIf(ast, Parent(ast, TheNewLoop)))
    IN  Graft(BeforeTheEdit, child_by_field_name(ast, head, "consequence"),
              StatementNodes("while_statement"))

ChainLength(t, c) ==
    Cardinality({a \in AncestorsOrSelf(t, c) : t[a].kind = "else_clause"})

\* C30: a control structure in the body of an else-if or of a plain else adds
\* to cognitive what it would add in the body of the chain's first if,
\* however long the chain; with the first if at level 0 a while adds 2.
C30_SameIncrementAlongTheChain ==
    Edited =>
        LET f == FunctionOf(1)
            head == HeadOf(ast, BranchIf(ast, Parent(ast, TheNewLoop)))
            added == metrics[1].cognitive - prev[1].cognitive
        IN  /\ prev[1].cognitive = calculate_cognitive_complexity(BeforeTheEdit, f)
            /\ added = calculate_cognitive_complexity(InTheFirstBranch, f)
                         - calculate_cognitive_complexity(BeforeTheEdit, f)
            /\ OfKind(ast, f, NestingKinds) \cap Ancestors(ast, head) = {} => added = 2

C30_LoopInTheThirdBranch ==
    /\ Edited
    /\ ChainLength(ast, TheNewLoop) = 2
    /\ OfKind(ast, FunctionOf(1), NestingKinds)
          \cap Ancestors(ast, HeadOf(ast, BranchIf(ast, Parent(ast, TheNewLoop)))) = {}
    /\ metrics[1].cognitive = prev[1].cognitive + 2

=============================================================================
